---- MODULE Spec2Model ----
(***************************************************************************)
(* Model of the normalisation analyser of NormalizacionAutomatizada:       *)
(* analysis.py (violation detector and FD oracle), generators.py (planner  *)
(* and SQL renderer) and scripts/normalizer.py (data-frame normaliser).    *)
(*                                                                         *)
(* Python strings are sequences of one-character strings, so that          *)
(* formatting and parsing (split, strip, lower, join, the regular          *)
(* expressions) are computed as the code computes them.  SQL NULL and      *)
(* Python None are the value NULL.                                         *)
(***************************************************************************)
EXTENDS Integers, Sequences, FiniteSets, TLC

VARIABLES pc, estructura_rows, db, cfg, queries, sample, analysis_result,
          plan, sql, norm, arg, ret, session, conns, log

\* the state of the web application: the Flask session, the connections
\* opened so far and the record of what the handlers did
appvars == <<session, conns, log>>

vars == <<pc, estructura_rows, db, cfg, queries, sample, analysis_result,
          plan, sql, norm, arg, ret, session, conns, log>>

\* ------------------------------------------------------------------------
\* Python built-ins on strings and lists
\* ------------------------------------------------------------------------

NULL == <<"NULL">>

NONE == <<"NONE">>

WHITESPACE == {" "}

UPPERCASE == <<"A","B","C","D","E","F","G","H","I","J","K","L","M",
               "N","O","P","Q","R","S","T","U","V","W","X","Y","Z">>

LOWERCASE == <<"a","b","c","d","e","f","g","h","i","j","k","l","m",
               "n","o","p","q","r","s","t","u","v","w","x","y","z">>

DIGITS == {"0","1","2","3","4","5","6","7","8","9"}

Range(s) == {s[i] : i \in DOMAIN s}

Min(a, b) == IF a <= b THEN a ELSE b

\* s[i:] with a 1-based i
Drop(s, n) == SubSeq(s, n + 1, Len(s))

Take(s, n) == SubSeq(s, 1, n)

\* [f(x) for x in s if p(x)]
Filter(s, p(_)) == SelectSeq(s, p)

Map(s, f(_)) == [i \in DOMAIN s |-> f(s[i])]

\* str.lower()
lower_char(c) ==
    IF \E i \in DOMAIN UPPERCASE : UPPERCASE[i] = c
    THEN LOWERCASE[CHOOSE i \in DOMAIN UPPERCASE : UPPERCASE[i] = c]
    ELSE c

lower(s) == [i \in DOMAIN s |-> lower_char(s[i])]

\* str.upper()
upper_char(c) ==
    IF \E i \in DOMAIN LOWERCASE : LOWERCASE[i] = c
    THEN UPPERCASE[CHOOSE i \in DOMAIN LOWERCASE : LOWERCASE[i] = c]
    ELSE c

upper(s) == [i \in DOMAIN s |-> upper_char(s[i])]

\* str.strip(): leading and trailing whitespace removed
RECURSIVE lstrip(_)
lstrip(s) == IF s # <<>> /\ s[1] \in WHITESPACE THEN lstrip(Tail(s)) ELSE s

RECURSIVE rstrip_set(_, _)
rstrip_set(s, chars) ==
    IF s # <<>> /\ s[Len(s)] \in chars THEN rstrip_set(Take(s, Len(s) - 1), chars) ELSE s

strip(s) == rstrip_set(lstrip(s), WHITESPACE)

startswith(s, p) == Len(s) >= Len(p) /\ Take(s, Len(p)) = p

\* sub in s
contains(s, sub) == \E i \in 0..(Len(s) - Len(sub)) : SubSeq(s, i + 1, i + Len(sub)) = sub

\* str.find(sep): 0-based offset of the first occurrence, -1 if none
find(s, sep) ==
    IF contains(s, sep)
    THEN CHOOSE i \in 0..(Len(s) - Len(sep)) :
            /\ SubSeq(s, i + 1, i + Len(sep)) = sep
            /\ \A j \in 0..(i - 1) : SubSeq(s, j + 1, j + Len(sep)) # sep
    ELSE -1

\* str.split(sep): non-overlapping occurrences, left to right
RECURSIVE split(_, _)
split(s, sep) ==
    LET i == find(s, sep) IN
    IF i < 0 THEN <<s>>
    ELSE <<Take(s, i)>> \o split(Drop(s, i + Len(sep)), sep)

\* str.split(sep, 1)
split1(s, sep) ==
    LET i == find(s, sep) IN
    IF i < 0 THEN <<s>> ELSE <<Take(s, i), Drop(s, i + Len(sep))>>

\* sep.join(parts), the parts being joined by halves
RECURSIVE join(_, _)
join(sep, parts) ==
    IF parts = <<>> THEN <<>>
    ELSE IF Len(parts) = 1 THEN parts[1]
    ELSE LET h == Len(parts) \div 2
         IN join(sep, Take(parts, h)) \o sep \o join(sep, Drop(parts, h))

\* str.split(c) on a separator c of one character: the parts between the
\* occurrences of c, the string being cut at the occurrence nearest to its
\* middle first
RECURSIVE split_char(_, _)
split_char(s, c) ==
    LET at == {i \in DOMAIN s : s[i] = c}
        far(i) == IF 2 * i >= Len(s) THEN 2 * i - Len(s) ELSE Len(s) - 2 * i
    IN IF at = {} THEN <<s>>
       ELSE LET m == CHOOSE i \in at : \A j \in at : far(i) <= far(j)
            IN split_char(Take(s, m - 1), c) \o split_char(Drop(s, m), c)

\* x in list
In(x, list) == \E i \in DOMAIN list : list[i] = x

\* set(list)
set(list) == Range(list)

\* itertools.combinations(seq, r): r-length subsequences in lexicographic
\* order of positions
RECURSIVE combinations(_, _)
combinations(seq, r) ==
    IF r = 0 THEN << <<>> >>
    ELSE IF Len(seq) < r THEN <<>>
    ELSE LET withHead == combinations(Tail(seq), r - 1)
             without  == combinations(Tail(seq), r)
         IN [i \in DOMAIN withHead |-> <<seq[1]>> \o withHead[i]] \o without

\* the concatenation of a list of lists
RECURSIVE Flatten(_)
Flatten(ss) == IF ss = <<>> THEN <<>> ELSE ss[1] \o Flatten(Tail(ss))

\* sorted(set(list)) needs an order on strings: code points of the
\* characters the model uses, then lexicographic order
ORDER == <<" ", "+", ",", "-", "0","1","2","3","4","5","6","7","8","9", ">",
           "A","B","C","D","E","F","G","H","I","J","K","L","M",
           "N","O","P","Q","R","S","T","U","V","W","X","Y","Z", "_",
           "a","b","c","d","e","f","g","h","i","j","k","l","m",
           "n","o","p","q","r","s","t","u","v","w","x","y","z">>

ord(c) == CHOOSE i \in DOMAIN ORDER : ORDER[i] = c

RECURSIVE str_lt(_, _)
str_lt(a, b) ==
    IF b = <<>> THEN FALSE
    ELSE IF a = <<>> THEN TRUE
    ELSE IF a[1] = b[1] THEN str_lt(Tail(a), Tail(b))
    ELSE ord(a[1]) < ord(b[1])

RECURSIVE sorted(_)
sorted(S) ==
    IF S = {} THEN <<>>
    ELSE LET m == CHOOSE x \in S : \A y \in S \ {x} : str_lt(x, y)
         IN <<m>> \o sorted(S \ {m})

\* dict.get(key, default) on a dict modelled as a function
get(dict, key, default) == IF key \in DOMAIN dict THEN dict[key] ELSE default

\* ------------------------------------------------------------------------
\* validators.py: functional-dependency cells
\* ------------------------------------------------------------------------

ValueError == <<"ValueError">>

nonblank(p) == strip(p) # <<>>

_split_list(s) == Filter(Map(split(s, <<",">>), strip), nonblank)

\* 'A,B->C,D' -> (['A','B'], ['C','D']); ValueError when malformed
_parse_fd(fd_raw) ==
    IF ~contains(fd_raw, <<"-", ">">>) THEN ValueError
    ELSE LET sides == Map(split1(fd_raw, <<"-", ">">>), strip)
             lhs == sides[1]
             rhs == sides[2]
         IN IF lhs = <<>> \/ rhs = <<>> THEN ValueError
            ELSE IF _split_list(lhs) = <<>> \/ _split_list(rhs) = <<>> THEN ValueError
            ELSE <<_split_list(lhs), _split_list(rhs)>>

\* ------------------------------------------------------------------------
\* validators.py: the validation of an uploaded structure.  An error or a
\* warning is (line, kind); the message texts are only displayed.
\* ------------------------------------------------------------------------

REQUIRED_COLS == << <<"t","a","b","l","a">>, <<"a","t","r","i","b","u","t","o">>,
                    <<"t","i","p","o">>, <<"l","l","a","v","e">> >>

BASIC_TYPES ==
    { <<"I","N","T">>, <<"B","I","G","I","N","T">>, <<"S","M","A","L","L","I","N","T">>,
      <<"T","I","N","Y","I","N","T">>, <<"D","A","T","E">>, <<"D","A","T","E","T","I","M","E">>,
      <<"D","A","T","E","T","I","M","E","2">>,
      <<"S","M","A","L","L","D","A","T","E","T","I","M","E">>, <<"T","I","M","E">>,
      <<"F","L","O","A","T">>, <<"R","E","A","L">>, <<"B","I","T">>, <<"M","O","N","E","Y">>,
      <<"S","M","A","L","L","M","O","N","E","Y">>, <<"T","E","X","T">>, <<"N","T","E","X","T">>,
      <<"U","N","I","Q","U","E","I","D","E","N","T","I","F","I","E","R">> }

\* [h.strip().lower() for h in headers]
normalize_headers(headers) == Map(headers, LAMBDA h : lower(strip(h)))

validate_headers(headers_norm) ==
    IF \E i \in DOMAIN REQUIRED_COLS : ~In(REQUIRED_COLS[i], headers_norm)
    THEN << <<1, "missing_columns">> >>
    ELSE <<>>

\* \s*\d+\s*
is_number(s) == strip(s) # <<>> /\ \A i \in DOMAIN strip(s) : strip(s)[i] \in DIGITS

\* name\(\s*\d+\s*\)$ after one of the names
re_match_length(t_up, names) ==
    \E n \in names :
        /\ startswith(t_up, n \o <<"(">>)
        /\ t_up[Len(t_up)] = ")"
        /\ is_number(SubSeq(t_up, Len(n) + 2, Len(t_up) - 1))

\* name\(\s*\d+\s*,\s*\d+\s*\)$ after one of the names
re_match_precision(t_up, names) ==
    \E n \in names :
        /\ startswith(t_up, n \o <<"(">>)
        /\ t_up[Len(t_up)] = ")"
        /\ LET parts == split(SubSeq(t_up, Len(n) + 2, Len(t_up) - 1), <<",">>)
           IN Len(parts) = 2 /\ is_number(parts[1]) /\ is_number(parts[2])

validate_type(t) ==
    IF t = <<>> THEN [ok |-> FALSE, msg |-> "empty_type"]
    ELSE LET t_up == strip(upper(t))
             base == split1(t_up, <<"(">>)[1]
         IN IF re_match_length(t_up, { <<"V","A","R","C","H","A","R">>, <<"C","H","A","R">>,
                                       <<"N","V","A","R","C","H","A","R">>, <<"N","C","H","A","R">> })
            THEN [ok |-> TRUE, msg |-> ""]
            ELSE IF re_match_precision(t_up, { <<"D","E","C","I","M","A","L">>,
                                               <<"N","U","M","E","R","I","C">> })
            THEN [ok |-> TRUE, msg |-> ""]
            ELSE IF base \in BASIC_TYPES THEN [ok |-> TRUE, msg |-> ""]
            ELSE IF base \in { <<"V","A","R","C","H","A","R">>, <<"C","H","A","R">>,
                               <<"N","V","A","R","C","H","A","R">>, <<"N","C","H","A","R">> }
            THEN [ok |-> FALSE, msg |-> "needs_length"]
            ELSE IF base \in { <<"D","E","C","I","M","A","L">>, <<"N","U","M","E","R","I","C">> }
            THEN [ok |-> FALSE, msg |-> "needs_precision"]
            ELSE [ok |-> FALSE, msg |-> "unknown_type"]

\* re.split(r"[;,]\s*", s)
RECURSIVE re_split_keys(_)
re_split_keys(s) ==
    LET seps == {i \in DOMAIN s : s[i] \in {";", ","}} IN
    IF seps = {} THEN <<s>>
    ELSE LET i == CHOOSE k \in seps : \A m \in seps : k <= m
         IN <<Take(s, i - 1)>> \o re_split_keys(lstrip(Drop(s, i)))

WORD_CHARS == Range(UPPERCASE) \cup Range(LOWERCASE) \cup DIGITS \cup {"_"}

is_word(s) == s # <<>> /\ \A i \in DOMAIN s : s[i] \in WORD_CHARS

\* RE_FK.match(tok): the groups (table, column), or NONE
RE_FK_match(tok) ==
    IF startswith(tok, <<"F","K","(">>) /\ tok[Len(tok)] = ")"
    THEN LET parts == split(strip(SubSeq(tok, 4, Len(tok) - 1)), <<".">>)
         IN IF Len(parts) = 2 /\ is_word(parts[1]) /\ is_word(parts[2])
            THEN <<parts[1], parts[2]>>
            ELSE NONE
    ELSE NONE

key_token_ok(tok) ==
    LET ku == upper(strip(tok)) IN
    \/ ku \in { <<"P","K">>, <<"P","K","(","P","A","R","T",")">>, <<"N","K">>,
                <<"U","N","I","Q","U","E">>, <<"F","K">> }
    \/ startswith(ku, <<"F","K","(">>) /\ RE_FK_match(tok) # NONE

validate_key(k) ==
    IF k = <<>> THEN TRUE
    ELSE \A i \in DOMAIN re_split_keys(strip(k)) : key_token_ok(re_split_keys(strip(k))[i])

\* {tabla_lower: set(col_lower)} as the set of the pairs
_collect_fk_targets(rows) ==
    {<<lower(strip(rows[i].tabla)), lower(strip(rows[i].atributo))>> :
        i \in {k \in DOMAIN rows : strip(rows[k].tabla) # <<>> /\ strip(rows[k].atributo) # <<>>}}

_collect_table_columns(rows, tabla_key) ==
    {tc[2] : tc \in {x \in _collect_fk_targets(rows) : x[1] = tabla_key}}

\* the errors of the key cell of line i
key_errors(rows, i, r, require_fk_target_in_csv) ==
    LET llave == strip(r.llave)
        tokens == IF llave # <<>> THEN re_split_keys(llave) ELSE <<>>
        has_fk_plain == \E k \in DOMAIN tokens : upper(strip(tokens[k])) = <<"F","K">>
        fk_tokens == Filter(Map(tokens, strip), LAMBDA ts :
                        startswith(upper(ts), <<"F","K","(">>) /\ RE_FK_match(ts) # NONE)
    IN IF ~validate_key(llave) THEN << <<i, "invalid_key">> >>
       ELSE (IF has_fk_plain /\ require_fk_target_in_csv THEN << <<i, "fk_without_target">> >>
             ELSE <<>>)
            \o Map(Filter(fk_tokens, LAMBDA ts :
                       <<lower(strip(RE_FK_match(ts)[1])), lower(strip(RE_FK_match(ts)[2]))>>
                           \notin _collect_fk_targets(rows)),
                   LAMBDA ts : <<i, "fk_target_missing">>)

\* the errors of one dependency of the cell of line i
fd_errors(rows, i, r, fd) ==
    IF _parse_fd(fd) = ValueError THEN << <<i, "invalid_fd">> >>
    ELSE Map(Filter(_parse_fd(fd)[1] \o _parse_fd(fd)[2], LAMBDA c :
                 lower(c) \notin _collect_table_columns(rows, lower(strip(r.tabla)))),
             LAMBDA c : <<i, "fd_unknown_column">>)

fd_cell_errors(rows, i, r) ==
    LET df_cell == strip(r.dependencia_funcional)
        raw_fds == Filter(Map(split(df_cell, <<";">>), strip), nonblank)
    IN IF df_cell = <<>> THEN <<>>
       ELSE IF raw_fds = <<>> THEN << <<i, "empty_fd">> >>
       ELSE Flatten(Map(raw_fds, LAMBDA fd : fd_errors(rows, i, r, fd)))

\* the errors of line i (the k-th row, i = k + 1), seen being the keys of
\* the rows before it
row_errors(rows, k, require_fk_target_in_csv) ==
    LET r == rows[k]
        i == k + 1
        key(x) == <<lower(strip(x.tabla)), lower(strip(x.atributo))>>
    IN (IF strip(r.tabla) = <<>> THEN << <<i, "blank_tabla">> >> ELSE <<>>)
       \o (IF strip(r.atributo) = <<>> THEN << <<i, "blank_atributo">> >> ELSE <<>>)
       \o (IF \E m \in 1..(k - 1) : key(rows[m]) = key(r)
           THEN << <<i, "duplicate_attribute">> >> ELSE <<>>)
       \o (IF ~validate_type(strip(r.tipo)).ok THEN << <<i, "invalid_type">> >> ELSE <<>>)
       \o key_errors(rows, i, r, require_fk_target_in_csv)
       \o fd_cell_errors(rows, i, r)

\* validate_rows(rows, require_fk_target_in_csv)[0]: the errors
validate_rows(rows, require_fk_target_in_csv) ==
    Flatten([k \in DOMAIN rows |-> row_errors(rows, k, require_fk_target_in_csv)])

\* ------------------------------------------------------------------------
\* analysis.py: structure model builder
\* ------------------------------------------------------------------------

\* the rows that are not skipped: table and attribute non-blank
kept_rows(rows) == Filter(rows, LAMBDA r : strip(r.tabla) # <<>> /\ strip(r.atributo) # <<>>)

fd_pieces(df_cell) == Filter(Map(split(strip(df_cell), <<";">>), strip), LAMBDA p : p # <<>>)

\* estructura_por_tabla without the continue of line 271
estructura_por_tabla_unskipped(rows) ==
    LET kept == rows
        tablas == {strip(kept[i].tabla) : i \in DOMAIN kept}
        of(t) == Filter(kept, LAMBDA r : strip(r.tabla) = t)
        pieces(t) == Flatten(Map(of(t), LAMBDA r : fd_pieces(r.dependencia_funcional)))
        con_llave(t) == Filter(of(t), LAMBDA r : strip(r.llave) # <<>>)
        con_fd == {t \in tablas : pieces(t) # <<>>}
    IN IF \E t \in tablas : \E i \in DOMAIN pieces(t) : _parse_fd(pieces(t)[i]) = ValueError
       THEN [raised |-> TRUE]
       ELSE [raised |-> FALSE,
             attrs  |-> [t \in tablas |-> Map(of(t), LAMBDA r : strip(r.atributo))],
             fds    |-> [t \in con_fd |-> Map(pieces(t), _parse_fd)],
             llaves |-> [t \in {u \in tablas : con_llave(u) # <<>>} |->
                           [a \in {strip(con_llave(t)[i].atributo) : i \in DOMAIN con_llave(t)} |->
                              LET rs == Filter(con_llave(t), LAMBDA r : strip(r.atributo) = a)
                              IN strip(rs[Len(rs)].llave)]]]

estructura_por_tabla(rows) ==
    LET kept == kept_rows(rows)
        tablas == {strip(kept[i].tabla) : i \in DOMAIN kept}
        of(t) == Filter(kept, LAMBDA r : strip(r.tabla) = t)
        pieces(t) == Flatten(Map(of(t), LAMBDA r : fd_pieces(r.dependencia_funcional)))
        con_llave(t) == Filter(of(t), LAMBDA r : strip(r.llave) # <<>>)
        con_fd == {t \in tablas : pieces(t) # <<>>}
    IN IF \E t \in tablas : \E i \in DOMAIN pieces(t) : _parse_fd(pieces(t)[i]) = ValueError
       THEN [raised |-> TRUE]
       ELSE [raised |-> FALSE,
             attrs  |-> [t \in tablas |-> Map(of(t), LAMBDA r : strip(r.atributo))],
             fds    |-> [t \in con_fd |-> Map(pieces(t), _parse_fd)],
             llaves |-> [t \in {u \in tablas : con_llave(u) # <<>>} |->
                           [a \in {strip(con_llave(t)[i].atributo) : i \in DOMAIN con_llave(t)} |->
                              LET rs == Filter(con_llave(t), LAMBDA r : strip(r.atributo) = a)
                              IN strip(rs[Len(rs)].llave)]]]

\* ------------------------------------------------------------------------
\* analysis.py: 1NF heuristics
\* ------------------------------------------------------------------------

SEP_CHARS == <<",", ";", "/", "|", "[", "]">>

\* str(val) of a value read from the table: the values are strings
str(val) == val

\* es_valor_atomico testing s.startswith without the strip() of line 294
es_valor_atomico_unstripped(val) ==
    IF val = NULL THEN TRUE
    ELSE LET s == str(val) IN
         IF \E i \in DOMAIN SEP_CHARS : contains(s, <<SEP_CHARS[i]>>) THEN FALSE
         ELSE IF startswith(s, <<"{">>) \/ startswith(s, <<"[">>) THEN FALSE
         ELSE TRUE

es_valor_atomico(val) ==
    IF val = NULL THEN TRUE
    ELSE LET s == str(val) IN
         IF \E i \in DOMAIN SEP_CHARS : contains(s, <<SEP_CHARS[i]>>) THEN FALSE
         ELSE IF startswith(strip(s), <<"{">>) \/ startswith(strip(s), <<"[">>) THEN FALSE
         ELSE TRUE

\* the pattern ^(.*)(\d+)$ with a greedy prefix: only the last digit is
\* the suffix
re_match_digit_suffix_greedy(a) ==
    IF a # <<>> /\ a[Len(a)] \in DIGITS THEN Take(a, Len(a) - 1) ELSE NONE

\* re.match(r"^(.*?)(\d+)$", a): group(1), or NONE when there is no match.
\* The lazy prefix is the name without its maximal run of trailing digits.
re_match_digit_suffix(a) ==
    IF a # <<>> /\ a[Len(a)] \in DIGITS THEN rstrip_set(a, DIGITS) ELSE NONE

\* groups.setdefault(base, []).append(a) on an insertion-ordered dict,
\* modelled as a list of (key, members) pairs
setdefault_append(groups, base, a) ==
    IF \E i \in DOMAIN groups : groups[i][1] = base
    THEN [i \in DOMAIN groups |->
            IF groups[i][1] = base THEN <<base, Append(groups[i][2], a)>> ELSE groups[i]]
    ELSE Append(groups, <<base, <<a>>>>)

RECURSIVE name_groups_of(_, _)
name_groups_of(attrs, groups) ==
    IF attrs = <<>> THEN groups
    ELSE LET a == attrs[1]
             m == re_match_digit_suffix(a)
         IN name_groups_of(Tail(attrs),
                IF m # NONE THEN setdefault_append(groups, lower(strip(m)), a) ELSE groups)

detectar_repetidos_nombrado(attrs) ==
    Filter(name_groups_of(attrs, <<>>), LAMBDA g : Len(g[2]) > 1)

\* ------------------------------------------------------------------------
\* analysis.py: the FD oracle, by the semantics of its SQL text.
\* conn.rows is the bag of rows of the table, each a function column->value.
\* GROUP BY puts the rows whose determinant columns are NULL in one group;
\* COUNT(DISTINCT x) does not count NULL.
\* ------------------------------------------------------------------------

project(row, cols) == [i \in DOMAIN cols |-> row[cols[i]]]

group_by(rows, cols) == {project(rows[i], cols) : i \in DOMAIN rows}

count_distinct(rows, col) == Cardinality({rows[i][col] : i \in DOMAIN rows} \ {NULL})

has_fd_sql(conn, lhs_cols, rhs_col, ignore_null_rhs) ==
    LET from == IF ignore_null_rhs
                THEN Filter(conn.rows, LAMBDA r : r[rhs_col] # NULL)
                ELSE conn.rows
        group(k) == Filter(from, LAMBDA r : project(r, lhs_cols) = k)
        z == {k \in group_by(from, lhs_cols) : count_distinct(group(k), rhs_col) > 1}
    IN z = {}

\* the query with HAVING COUNT(*) >= 1: unique only for an empty table
is_unique_sql_having_any(conn, cols) ==
    LET group(k) == Filter(conn.rows, LAMBDA r : project(r, cols) = k)
    IN {k \in group_by(conn.rows, cols) : Len(group(k)) >= 1} = {}

is_unique_sql(conn, cols) ==
    LET group(k) == Filter(conn.rows, LAMBDA r : project(r, cols) = k)
    IN {k \in group_by(conn.rows, cols) : Len(group(k)) > 1} = {}

\* ------------------------------------------------------------------------
\* sql_access.py: the catalog adapter.  conn is the database seen through
\* the connection: [cols_sql, pk_cols, unique_sets, rows].
\* ------------------------------------------------------------------------

get_columns(conn) == conn.cols_sql

get_pk_columns(conn) == conn.pk_cols

get_unique_sets(conn) == conn.unique_sets

\* SELECT [TOP n] cols FROM table, without ORDER BY: the server may return
\* any n rows in any order.  The possible results, rows as tuples.
\* A limit of None is 0 here: both are false in "if limit".
fetch_sample_rows(conn, cols, limit) ==
    LET n == IF limit = 0 THEN Len(conn.rows) ELSE Min(limit, Len(conn.rows))
        picks == {f \in [1..n -> DOMAIN conn.rows] : \A i, j \in 1..n : i # j => f[i] # f[j]}
    IN {[i \in 1..n |-> project(conn.rows[f[i]], cols)] : f \in picks}

\* ------------------------------------------------------------------------
\* analysis.py: analyze_table
\* ------------------------------------------------------------------------

EXPLAIN_2FN == <<" ","(","d","e","p","e","n","d","e","n","c","i","a"," ","p","a","r","c","i","a","l"," ","d","e"," ","l","a"," ","c","l","a","v","e"," ","c","o","m","p","u","e","s","t","a",")">>

REASON_DECL == <<"D","e","t","e","r","m","i","n","a","n","t","e"," ","n","o"," ","e","s"," ","s","u","p","e","r","c","l","a","v","e"," ","y"," ","R","H","S"," ","n","o"," ","p","r","i","m","o"," ","(","F","D"," ","d","e","c","l","a","r","a","d","a",")">>

REASON_INFER == <<"D","e","p","e","n","d","e","n","c","i","a"," ","t","r","a","n","s","i","t","i","v","a"," ","i","n","f","e","r","i","d","a"," ","(","1","-","c","o","l",")">>

ARROW == <<" ", "-", ">", " ">>

Query(check, q, a) == [check |-> check, q |-> q, args |-> a]

\* the declared attributes that exist in the catalog
cols_to_check_of(attrs, cols_sql) == Filter(attrs, LAMBDA c : In(c, cols_sql))

\* col_index = {c: i for i, c in enumerate(cols_to_check)}
col_index(cols_to_check, c) ==
    CHOOSE i \in DOMAIN cols_to_check :
        cols_to_check[i] = c /\ \A j \in DOMAIN cols_to_check : cols_to_check[j] = c => j <= i

\* the first non-atomic value of column c in the sample, as a list of 0 or 1
\* the scan of a column without the break of line 375: every offending
\* value is recorded
first_issue_no_break(cols_to_check, smp, c) ==
    LET idx == col_index(cols_to_check, c)
    IN Map(Filter(smp, LAMBDA r : ~es_valor_atomico(r[idx])), LAMBDA r : <<c, str(r[idx])>>)

first_issue(cols_to_check, smp, c) ==
    LET idx == col_index(cols_to_check, c)
        bad == {k \in DOMAIN smp : ~es_valor_atomico(smp[k][idx])}
    IN IF bad = {} THEN <<>>
       ELSE <<<<c, str(smp[CHOOSE k \in bad : \A m \in bad : k <= m][idx])>>>>

atomic_scan(cols_to_check, smp) ==
    Flatten(Map(cols_to_check, LAMBDA c : first_issue(cols_to_check, smp, c)))

\* range(1, len(pk_cols) - 1): the subsets of size len(pk_cols) - 1 are
\* left out
pk_subsets_short(pk_cols) ==
    Flatten([r \in 1..(Len(pk_cols) - 2) |-> combinations(pk_cols, r)])

\* range(1, len(pk_cols)) then combinations(pk_cols, r), in loop order
pk_subsets(pk_cols) ==
    Flatten([r \in 1..(Len(pk_cols) - 1) |-> combinations(pk_cols, r)])

\* the 2NF check without the guard of line 380 and with range(1,
\* len(pk_cols) + 1): the whole key is tried as a determinant
check_2fn_whole_key(conn, pk_cols, cols_to_check, cfg_) ==
    LET non_key_cols == Filter(cols_to_check, LAMBDA c : ~In(c, pk_cols))
    IN Flatten(Map(Flatten([r \in 1..Len(pk_cols) |-> combinations(pk_cols, r)]),
           LAMBDA subset :
               Flatten(Map(non_key_cols, LAMBDA c :
                   IF has_fd_sql(conn, subset, c, ~cfg_.fd_check_nulls)
                   THEN <<[subset |-> subset, attr |-> c,
                           explain |-> join(<<"+">>, subset) \o ARROW \o c \o EXPLAIN_2FN]>>
                   ELSE <<>>))))

check_2fn(conn, pk_cols, cols_to_check, cfg_) ==
    IF Len(pk_cols) > 1
    THEN LET non_key_cols == Filter(cols_to_check, LAMBDA c : ~In(c, pk_cols))
         IN Flatten(Map(pk_subsets(pk_cols), LAMBDA subset :
                Flatten(Map(non_key_cols, LAMBDA c :
                    IF has_fd_sql(conn, subset, c, ~cfg_.fd_check_nulls)
                    THEN <<[subset |-> subset, attr |-> c,
                            explain |-> join(<<"+">>, subset) \o ARROW \o c \o EXPLAIN_2FN]>>
                    ELSE <<>>))))
    ELSE <<>>

queries_2fn(pk_cols, cols_to_check, cfg_) ==
    IF Len(pk_cols) > 1
    THEN LET non_key_cols == Filter(cols_to_check, LAMBDA c : ~In(c, pk_cols))
         IN Flatten(Map(pk_subsets(pk_cols), LAMBDA subset :
                Map(non_key_cols, LAMBDA c :
                    Query("2NF", "has_fd_sql", <<subset, c, ~cfg_.fd_check_nulls>>))))
    ELSE <<>>

\* the superkey test comparing lists instead of sets
is_superkey_ordered(lhs, pk_cols, unique_sets) ==
    \/ lhs = pk_cols
    \/ \E i \in DOMAIN unique_sets : lhs = unique_sets[i]

is_superkey(lhs, pk_cols, unique_sets) ==
    \/ set(lhs) = set(pk_cols)
    \/ \E i \in DOMAIN unique_sets : set(lhs) = set(unique_sets[i])

check_3fn_decl(fds_declaradas, pk_cols, unique_sets, prime_cols) ==
    Flatten(Map(fds_declaradas, LAMBDA fd :
        IF is_superkey(fd[1], pk_cols, unique_sets) THEN <<>>
        ELSE Map(Filter(fd[2], LAMBDA y : y \notin prime_cols), LAMBDA y :
                [chain |-> join(<<"+">>, fd[1]) \o ARROW \o y, reason |-> REASON_DECL])))

check_3fn_infer(conn, pk_cols, prime_cols, cols_to_check, cfg_) ==
    IF cfg_.infer_singlecol_fds
    THEN LET non_key_cols == Filter(cols_to_check, LAMBDA c : c \notin prime_cols)
         IN Flatten(Map(non_key_cols, LAMBDA a :
                IF is_unique_sql(conn, <<a>>) THEN <<>>
                ELSE Flatten(Map(non_key_cols, LAMBDA b :
                        IF /\ b # a
                           /\ has_fd_sql(conn, <<a>>, b, TRUE)
                           /\ ~In(a, pk_cols) /\ b \notin prime_cols
                        THEN <<[chain |-> join(<<"+">>, pk_cols) \o ARROW \o a \o ARROW \o b,
                                reason |-> REASON_INFER]>>
                        ELSE <<>>))))
    ELSE <<>>

queries_3fn_infer(conn, prime_cols, cols_to_check, cfg_) ==
    IF cfg_.infer_singlecol_fds
    THEN LET non_key_cols == Filter(cols_to_check, LAMBDA c : c \notin prime_cols)
         IN Flatten(Map(non_key_cols, LAMBDA a :
                <<Query("3NF", "is_unique_sql", <<a>>)>> \o
                (IF is_unique_sql(conn, <<a>>) THEN <<>>
                 ELSE Map(Filter(non_key_cols, LAMBDA b : b # a), LAMBDA b :
                        Query("3NF", "has_fd_sql", <<<<a>>, b, TRUE>>)))))
    ELSE <<>>

prime_cols_of(pk_cols, unique_sets) ==
    set(pk_cols) \cup UNION {set(unique_sets[i]) : i \in DOMAIN unique_sets}

\* smp is the result of the call of fetch_sample_rows (unused when no
\* declared attribute is in the catalog)
analyze_table(conn, schema, table, tabla_csv, rows_csv, cfg_, smp) ==
    LET est == estructura_por_tabla(rows_csv)
        attrs == get(est.attrs, tabla_csv, <<>>)
        fds_declaradas == get(est.fds, tabla_csv, <<>>)
        cols_sql == get_columns(conn)
        pk_cols == get_pk_columns(conn)
        unique_sets == get_unique_sets(conn)
        prime_cols == prime_cols_of(pk_cols, unique_sets)
        cols_to_check == cols_to_check_of(attrs, cols_sql)
    IN [schema |-> schema,
        table |-> table,
        attrs_csv |-> attrs,
        cols_sql |-> cols_sql,
        pk_cols |-> pk_cols,
        unique_sets |-> unique_sets,
        prime_cols |-> sorted(prime_cols),
        one_nf |-> [atomic_issues |-> IF cols_to_check # <<>>
                                      THEN atomic_scan(cols_to_check, smp) ELSE <<>>,
                    name_groups |-> detectar_repetidos_nombrado(attrs)],
        two_nf |-> check_2fn(conn, pk_cols, cols_to_check, cfg_),
        three_nf |-> check_3fn_decl(fds_declaradas, pk_cols, unique_sets, prime_cols)
                     \o check_3fn_infer(conn, pk_cols, prime_cols, cols_to_check, cfg_)]

\* the queries analyze_table sends, in order
queries_of(conn, tabla_csv, rows_csv, cfg_) ==
    LET est == estructura_por_tabla(rows_csv)
        attrs == get(est.attrs, tabla_csv, <<>>)
        pk_cols == get_pk_columns(conn)
        prime_cols == prime_cols_of(pk_cols, get_unique_sets(conn))
        cols_to_check == cols_to_check_of(attrs, get_columns(conn))
    IN <<Query("catalog", "get_columns", <<>>),
         Query("catalog", "get_pk_columns", <<>>),
         Query("catalog", "get_unique_sets", <<>>)>>
       \o (IF cols_to_check # <<>>
           THEN <<Query("1NF", "fetch_sample_rows", <<cols_to_check, cfg_.sample_rows>>)>>
           ELSE <<>>)
       \o queries_2fn(pk_cols, cols_to_check, cfg_)
       \o queries_3fn_infer(conn, prime_cols, cols_to_check, cfg_)

\* ------------------------------------------------------------------------
\* generators.py: the planner.  Texts the code only copies (types,
\* comments, SQL keywords) are kept as one-fragment strings.
\* ------------------------------------------------------------------------

DEFAULT_TYPE == <<"NVARCHAR(255)">>

\* {tabla: {col: tipo_sql}}
tipos_por_tabla(rows) ==
    LET kept == kept_rows(rows)
        tablas == {strip(kept[i].tabla) : i \in DOMAIN kept}
        of(t) == Filter(kept, LAMBDA r : strip(r.tabla) = t)
    IN [t \in tablas |->
          [a \in {strip(of(t)[i].atributo) : i \in DOMAIN of(t)} |->
             LET rs == Filter(of(t), LAMBDA r : strip(r.atributo) = a)
                 ty == strip(rs[Len(rs)].tipo)
             IN IF ty # <<>> THEN ty ELSE DEFAULT_TYPE]]

_fallback_type(col, tipos_map) ==
    IF col \in DOMAIN tipos_map /\ tipos_map[col] # <<>> THEN tipos_map[col] ELSE DEFAULT_TYPE

SAFE_CHARS == Range(UPPERCASE) \cup Range(LOWERCASE) \cup DIGITS \cup {"_"}

\* re.sub(r"[^A-Za-z0-9_]", "_", name)
_safe_name(name) == [i \in DOMAIN name |-> IF name[i] \in SAFE_CHARS THEN name[i] ELSE "_"]

\* d[key].extend(items) on an insertion-ordered defaultdict(list)
dict_extend(groups, key, items) ==
    IF \E i \in DOMAIN groups : groups[i][1] = key
    THEN [i \in DOMAIN groups |->
            IF groups[i][1] = key THEN <<key, groups[i][2] \o items>> ELSE groups[i]]
    ELSE Append(groups, <<key, items>>)

\* for x in items: if x not in lst: lst.append(x)
RECURSIVE append_missing(_, _)
append_missing(lst, items) ==
    IF items = <<>> THEN lst
    ELSE append_missing(IF In(items[1], lst) THEN lst ELSE Append(lst, items[1]), Tail(items))

\* lst.extend([c for c in cols if c not in lst])
extend_missing(lst, cols) == lst \o Filter(cols, LAMBDA c : ~In(c, lst))

typed(cols, tipos_tabla) == Map(cols, LAMBDA c : <<c, _fallback_type(c, tipos_tabla)>>)

COMMENT_1NF == <<"Grupos repetidos por nombre; requiere UNPIVOT o inserciones por filas (n).">>

COMMENT_2NF == <<"Dependencias parciales detectadas (2FN). Considere UNIQUE en el subset para habilitar FK si aplica.">>

COMMENT_3NF_DECL == <<"FD declarada con determinante no-superclave.">>

COMMENT_3NF_INFER == <<"Dependencia transitiva inferida A->B (1-col).">>

NOTE_NONE == <<"No se detectaron violaciones que requieran nuevas tablas.">>

VALOR == <<"v","a","l","o","r">>

SUFFIX_INFO == <<"_","i","n","f","o">>

SUFFIX_DIM == <<"_","d","i","m">>

\* table_1nf naming the value column base.rstrip("_") without the
\* `or "valor"` of line 96
table_1nf_no_fallback(table_sql, pk_cols, tipos_tabla, g) ==
    LET base == g[1]
        cols == g[2]
    IN [source |-> <<"1NF">>,
        name |-> table_sql \o <<"_">> \o _safe_name(base),
        cols |-> typed(pk_cols, tipos_tabla) \o << <<<<"n">>, <<"INT">>>> >>
                 \o << <<rstrip_set(base, {"_"}), _fallback_type(cols[1], tipos_tabla)>> >>,
        pk |-> pk_cols \o << <<"n">> >>,
        fk_from_original |-> <<>>,
        move_from_original |-> cols,
        comment |-> COMMENT_1NF]

table_1nf(table_sql, pk_cols, tipos_tabla, g) ==
    LET base == g[1]
        cols == g[2]
        valor == IF rstrip_set(base, {"_"}) # <<>> THEN rstrip_set(base, {"_"}) ELSE VALOR
    IN [source |-> <<"1NF">>,
        name |-> table_sql \o <<"_">> \o _safe_name(base),
        cols |-> typed(pk_cols, tipos_tabla) \o << <<<<"n">>, <<"INT">>>> >>
                 \o << <<valor, _fallback_type(cols[1], tipos_tabla)>> >>,
        pk |-> pk_cols \o << <<"n">> >>,
        fk_from_original |-> <<>>,
        move_from_original |-> cols,
        comment |-> COMMENT_1NF]

RECURSIVE group_2fn_of(_, _)
group_2fn_of(two_nf, groups) ==
    IF two_nf = <<>> THEN groups
    ELSE group_2fn_of(Tail(two_nf),
            IF two_nf[1].subset # <<>> /\ two_nf[1].attr # <<>>
            THEN dict_extend(groups, two_nf[1].subset, <<two_nf[1].attr>>)
            ELSE groups)

\* the 2NF table holding its key only, the dependent attributes left out
table_2fn_key_only(table_sql, tipos_tabla, g) ==
    LET subset == g[1]
        attrs == g[2]
    IN [source |-> <<"2NF">>,
        name |-> table_sql \o <<"_">> \o join(<<"_">>, Map(subset, _safe_name)) \o SUFFIX_INFO,
        cols |-> typed(subset, tipos_tabla),
        pk |-> subset,
        fk_from_original |-> <<>>,
        move_from_original |-> sorted(set(attrs)),
        comment |-> COMMENT_2NF]

table_2fn(table_sql, tipos_tabla, g) ==
    LET subset == g[1]
        attrs == g[2]
    IN [source |-> <<"2NF">>,
        name |-> table_sql \o <<"_">> \o join(<<"_">>, Map(subset, _safe_name)) \o SUFFIX_INFO,
        cols |-> typed(subset, tipos_tabla) \o typed(sorted(set(attrs)), tipos_tabla),
        pk |-> subset,
        fk_from_original |-> <<>>,
        move_from_original |-> sorted(set(attrs)),
        comment |-> COMMENT_2NF]

\* [c.strip() for c in raw.split("+") if c.strip()]
plus_list(raw) == Filter(Map(split(raw, <<"+">>), strip), LAMBDA c : c # <<>>)

chain_parts(v) == Map(split(v.chain, <<"-", ">">>), strip)

is_declared(v) == contains(lower(v.reason), <<"d","e","c","l","a","r","a","d","a">>)

RECURSIVE group_3fn_decl_of(_, _)
group_3fn_decl_of(three_nf, groups) ==
    IF three_nf = <<>> THEN groups
    ELSE LET v == three_nf[1]
             parts == chain_parts(v)
         IN group_3fn_decl_of(Tail(three_nf),
                IF /\ is_declared(v)
                   /\ Len(parts) = 2
                   /\ plus_list(parts[1]) # <<>>
                   /\ plus_list(parts[2]) # <<>>
                THEN dict_extend(groups, plus_list(parts[1]), plus_list(parts[2]))
                ELSE groups)

RECURSIVE group_3fn_infer_of(_, _)
group_3fn_infer_of(three_nf, groups) ==
    IF three_nf = <<>> THEN groups
    ELSE LET v == three_nf[1]
             parts == chain_parts(v)
         IN group_3fn_infer_of(Tail(three_nf),
                IF /\ ~is_declared(v)
                   /\ Len(parts) = 3
                   /\ strip(parts[2]) # <<>>
                   /\ strip(parts[3]) # <<>>
                THEN dict_extend(groups, strip(parts[2]), <<strip(parts[3])>>)
                ELSE groups)

fk_to(table_sql, name, cols) ==
    [from_table |-> table_sql, from_cols |-> cols, to_table |-> name, to_cols |-> cols]

table_3fn_decl(table_sql, tipos_tabla, g) ==
    LET lhs_tuple == g[1]
        rhs_list == g[2]
        name == table_sql \o <<"_">> \o join(<<"_">>, Map(lhs_tuple, _safe_name)) \o SUFFIX_DIM
    IN [source |-> <<"3FN-decl">>,
        name |-> name,
        cols |-> typed(lhs_tuple, tipos_tabla) \o typed(sorted(set(rhs_list)), tipos_tabla),
        pk |-> lhs_tuple,
        fk_from_original |-> <<fk_to(table_sql, name, lhs_tuple)>>,
        move_from_original |-> sorted(set(rhs_list)),
        comment |-> COMMENT_3NF_DECL]

table_3fn_infer(table_sql, tipos_tabla, g) ==
    LET a == g[1]
        bs == g[2]
        name == table_sql \o <<"_">> \o _safe_name(a) \o SUFFIX_DIM
    IN [source |-> <<"3FN-infer">>,
        name |-> name,
        cols |-> typed(<<a>>, tipos_tabla) \o typed(sorted(set(bs)), tipos_tabla),
        pk |-> <<a>>,
        fk_from_original |-> <<fk_to(table_sql, name, <<a>>)>>,
        move_from_original |-> sorted(set(bs)),
        comment |-> COMMENT_3NF_INFER]

\* the drop candidates after the 1NF groups, each group extending the list
RECURSIVE drop_1nf(_, _)
drop_1nf(lst, name_groups) ==
    IF name_groups = <<>> THEN lst
    ELSE drop_1nf(extend_missing(lst, name_groups[1][2]), Tail(name_groups))

\* the drop candidates after the groups of one later kind
RECURSIVE drop_groups(_, _)
drop_groups(lst, groups) ==
    IF groups = <<>> THEN lst
    ELSE drop_groups(append_missing(lst, groups[1][2]), Tail(groups))

build_plan(schema, table_sql, tabla_csv, rows_csv, result) ==
    LET tipos_tabla == get(tipos_por_tabla(rows_csv), tabla_csv, <<>>)
        pk_cols == result.pk_cols
        name_groups == result.one_nf.name_groups
        g2 == group_2fn_of(result.two_nf, <<>>)
        g3d == group_3fn_decl_of(result.three_nf, <<>>)
        g3i == group_3fn_infer_of(result.three_nf, <<>>)
        new_tables ==
            Map(name_groups, LAMBDA g : table_1nf(table_sql, pk_cols, tipos_tabla, g))
            \o Map(g2, LAMBDA g : table_2fn(table_sql, tipos_tabla, g))
            \o Map(g3d, LAMBDA g : table_3fn_decl(table_sql, tipos_tabla, g))
            \o Map(g3i, LAMBDA g : table_3fn_infer(table_sql, tipos_tabla, g))
    IN [new_tables |-> new_tables,
        drop_candidates |->
            drop_groups(drop_groups(drop_groups(drop_1nf(<<>>, name_groups), g2), g3d), g3i),
        notes |-> IF new_tables = <<>> THEN <<NOTE_NONE>> ELSE <<>>,
        orig_cols |-> sorted(DOMAIN tipos_tabla)]

\* ------------------------------------------------------------------------
\* generators.py: the renderer.  sb is the list of appended strings, the
\* script is "\n".join(sb).  A line feed is the fragment "\n"; the accented
\* letters and the dash of the header comments are written in ASCII.
\* The fixed texts of the script are written as fragments that keep the
\* comment marker -- and the statement keywords apart, so that a line can be
\* recognised as a comment and a statement by its keyword.
\* ------------------------------------------------------------------------

NL == <<"\n">>

\* "[" + name.replace("]", "]]") + "]"
quote_ident(name) ==
    <<"[">> \o Flatten([i \in DOMAIN name |-> IF name[i] = "]" THEN <<"]", "]">> ELSE <<name[i]>>])
    \o <<"]">>

quoted_list(cols) == join(<<", ">>, Map(cols, quote_ident))

\* str(i) of a natural number
RECURSIVE itoa(_)
itoa(i) ==
    LET d == <<"0","1","2","3","4","5","6","7","8","9">>[(i % 10) + 1]
    IN IF i < 10 THEN <<d>> ELSE itoa(i \div 10) \o <<d>>

names_of(cols) == Map(cols, LAMBDA ct : ct[1])

render_create(schema, nt) ==
    LET qnew == quote_ident(schema) \o <<".">> \o quote_ident(nt.name)
        cols_lines ==
            Map(nt.cols, LAMBDA ct : <<"    ">> \o quote_ident(ct[1]) \o <<" ">> \o ct[2])
            \o (IF nt.pk # <<>>
                THEN << <<"    ,CONSTRAINT ">> \o _safe_name(<<"P","K","_">> \o nt.name)
                        \o <<" PRIMARY KEY (">> \o quoted_list(nt.pk) \o <<")">> >>
                ELSE <<>>)
    IN << <<"IF OBJECT_ID(N'">> \o schema \o <<".">> \o nt.name \o <<"', N'U') IS NULL">>,
          <<"BEGIN">>,
          <<"  ", "CREATE TABLE", " ">> \o qnew \o <<" (">> \o NL
             \o join(<<",">> \o NL, cols_lines) \o NL \o <<"  );">>,
          <<"END;">> >>

render_insert_1nf(qnew, qorig, nt) ==
    LET moved == nt.move_from_original IN
    << <<"--", " INSERT en ">> \o qnew \o <<": requiere UNPIVOT/CROSS APPLY de columnas ">>
          \o quoted_list(moved),
       <<"--", " Ejemplo (ajuste nombres):">>,
       <<"--", " ", "INSERT INTO", " ">> \o qnew \o <<" (">> \o quoted_list(names_of(nt.cols)) \o <<")">>,
       <<"--", " SELECT ">> \o quoted_list(nt.pk) \o <<", v.n, v.valor">>,
       <<"--", " FROM ">> \o qorig,
       <<"--", " CROSS APPLY (">>,
       IF moved # <<>> THEN <<"--", "   VALUES (1, ">> \o quote_ident(moved[1]) \o <<")">>
       ELSE <<"--", "   VALUES (1, NULL)">> >>
    \o [i \in 1..(Len(moved) - 1) |->
          <<"--", "        ,(">> \o itoa(i + 1) \o <<", ">> \o quote_ident(moved[i + 1]) \o <<")">>]
    \o << <<"--", " ) AS v(n, valor);">> >>

\* render_insert without the test of line 278: the INSERT is always emitted
render_insert_unchecked(schema, table_sql, qnew, qorig, orig_cols, nt) ==
    << <<"INSERT INTO", " ">> \o qnew \o <<" (">> \o quoted_list(names_of(nt.cols)) \o <<")">>,
       <<"SELECT DISTINCT", " ">> \o quoted_list(names_of(nt.cols)),
       <<"FROM ">> \o qorig \o <<";">> >>

render_insert(schema, table_sql, qnew, qorig, orig_cols, nt) ==
    LET cols_in_orig == Filter(names_of(nt.cols), LAMBDA c : c \in orig_cols)
    IN IF Len(cols_in_orig) = Len(nt.cols)
       THEN << <<"INSERT INTO", " ">> \o qnew \o <<" (">> \o quoted_list(names_of(nt.cols)) \o <<")">>,
               <<"SELECT DISTINCT", " ">> \o quoted_list(cols_in_orig),
               <<"FROM ">> \o qorig \o <<";">> >>
       ELSE << <<"--", " No se pudo generar INSERT automatico para ">> \o qnew \o <<":">>,
               <<"--", " Columnas no presentes en ">> \o schema \o <<".">> \o table_sql \o <<": ">>
                  \o quoted_list(Filter(names_of(nt.cols), LAMBDA c : c \notin orig_cols)),
               <<"--", " Ajuste manual del INSERT.">> >>

fk_name_of(table_sql, name) == _safe_name(<<"F","K","_">> \o table_sql \o <<"_">> \o name)

render_fk(table_sql, qnew, qorig, nt) ==
    IF nt.fk_from_original # <<>>
    THEN LET fk == nt.fk_from_original[1]
             fk_name == fk_name_of(table_sql, nt.name)
         IN << <<"IF NOT EXISTS (SELECT 1 FROM sys.foreign_keys WHERE name = N'">>
                  \o fk_name \o <<"')">>,
               <<"BEGIN">>,
               <<"  ", "ALTER TABLE", " ">> \o qorig,
               <<"  ADD CONSTRAINT ">> \o fk_name \o <<" FOREIGN KEY (">>
                  \o quoted_list(fk.from_cols) \o <<")">>,
               <<"      REFERENCES ">> \o qnew \o <<" (">> \o quoted_list(fk.to_cols) \o <<");">>,
               <<"END;">> >>
    ELSE <<>>

\* render_drop emitting the DROP COLUMN statements uncommented
render_drop_executable(qorig, nt) ==
    Map(nt.move_from_original, LAMBDA c :
        <<"ALTER TABLE", " ">> \o qorig \o <<" ", "DROP COLUMN", " ">> \o quote_ident(c) \o <<";">>)

render_drop(qorig, nt) ==
    IF nt.move_from_original # <<>>
    THEN << <<"--", " Sugerencia: eliminar columnas movidas del original (revise dependencias):">> >>
         \o Map(nt.move_from_original, LAMBDA c :
                <<"--", " ", "ALTER TABLE", " ">> \o qorig \o <<" ", "DROP COLUMN", " ">> \o quote_ident(c) \o <<";">>)
    ELSE <<>>

\* render_new_table adding the foreign key before it creates the table
render_new_table_fk_first(schema, table_sql, orig_cols, nt) ==
    LET qorig == quote_ident(schema) \o <<".">> \o quote_ident(table_sql)
        qnew == quote_ident(schema) \o <<".">> \o quote_ident(nt.name)
    IN << NL \o <<"--", " ---------- ">> \o nt.source \o <<" ----------">> >>
       \o (IF nt.comment # <<>> THEN << <<"--", " ">> \o nt.comment >> ELSE <<>>)
       \o render_fk(table_sql, qnew, qorig, nt)
       \o render_create(schema, nt)
       \o (IF nt.source = <<"1NF">>
           THEN render_insert_1nf(qnew, qorig, nt)
           ELSE render_insert(schema, table_sql, qnew, qorig, orig_cols, nt))
       \o render_drop(qorig, nt)
       \o << <<>> >>

render_new_table(schema, table_sql, orig_cols, nt) ==
    LET qorig == quote_ident(schema) \o <<".">> \o quote_ident(table_sql)
        qnew == quote_ident(schema) \o <<".">> \o quote_ident(nt.name)
    IN << NL \o <<"--", " ---------- ">> \o nt.source \o <<" ----------">> >>
       \o (IF nt.comment # <<>> THEN << <<"--", " ">> \o nt.comment >> ELSE <<>>)
       \o render_create(schema, nt)
       \o (IF nt.source = <<"1NF">>
           THEN render_insert_1nf(qnew, qorig, nt)
           ELSE render_insert(schema, table_sql, qnew, qorig, orig_cols, nt))
       \o render_fk(table_sql, qnew, qorig, nt)
       \o render_drop(qorig, nt)
       \o << <<>> >>

sb_of(schema, table_sql, plan_) ==
    << <<"--", " =====================================================">>,
       <<"--", " Normalizacion propuesta para ">> \o schema \o <<".">> \o table_sql,
       <<"--", " Generado automaticamente - revise y ajuste segun su modelo">>,
       <<"--", " =====================================================">>,
       <<"BEGIN TRAN", ";">>,
       <<>> >>
    \o Flatten(Map(plan_.new_tables, LAMBDA nt :
            render_new_table(schema, table_sql, set(plan_.orig_cols), nt)))
    \o (IF plan_.drop_candidates # <<>>
        THEN << <<"--", " Columnas candidatas a eliminar del original (ya listadas arriba por bloque):">>,
                <<"--", " ">> \o quoted_list(plan_.drop_candidates),
                <<>> >>
        ELSE <<>>)
    \o Map(plan_.notes, LAMBDA n : <<"--", " Nota: ">> \o n)
    \o << NL \o <<"--", " Si todo es correcto:">>,
          <<"--", " ", "COMMIT", ";">>,
          <<"--", " Si hay problemas:">>,
          <<"ROLLBACK", ";">>,
          <<>> >>

render_sql(schema, table_sql, plan_) == join(NL, sb_of(schema, table_sql, plan_))

\* the lines of a script
lines_of(text) == split_char(text, NL[1])

\* ------------------------------------------------------------------------
\* scripts/normalizer.py: the data-frame normaliser.  A DataFrame is
\* [columns, rows], rows being functions column -> value in index order;
\* NaN is NULL.
\* ------------------------------------------------------------------------

\* df[cols]
df_select(df, cols) == [columns |-> cols, rows |-> Map(df.rows, LAMBDA r : [c \in set(cols) |-> r[c]])]

\* df.drop(columns=cols, errors='ignore')
df_drop(df, cols) == df_select(df, Filter(df.columns, LAMBDA c : ~In(c, cols)))

\* df.drop_duplicates(): the first of equal rows is kept
df_drop_duplicates(df) ==
    [columns |-> df.columns,
     rows |-> LET keep == {i \in DOMAIN df.rows : \A j \in 1..(i - 1) : df.rows[j] # df.rows[i]}
                  RECURSIVE pick(_)
                  pick(i) == IF i > Len(df.rows) THEN <<>>
                             ELSE (IF i \in keep THEN <<df.rows[i]>> ELSE <<>>) \o pick(i + 1)
              IN pick(1)]

proper_subsets(pk) == Flatten([r \in 1..(Len(pk) - 1) |-> combinations(pk, r)])

\* depends_on without the support test of line 97
depends_on_unsupported(df, determinant_cols, target) ==
    IF \E i \in DOMAIN determinant_cols : ~In(determinant_cols[i], df.columns) THEN FALSE
    ELSE IF ~In(target, df.columns) THEN FALSE
    ELSE LET df2 == Filter(df.rows, LAMBDA r :
                        /\ \A i \in DOMAIN determinant_cols : r[determinant_cols[i]] # NULL
                        /\ r[target] # NULL)
             keys == {project(df2[i], determinant_cols) : i \in DOMAIN df2}
             grp(k) == Filter(df2, LAMBDA r : project(r, determinant_cols) = k)
             nunique(k) == Cardinality({grp(k)[i][target] : i \in DOMAIN grp(k)})
         IN IF df2 = <<>> THEN FALSE ELSE \A k \in keys : nunique(k) = 1

\* groupby of an empty list of columns raises ValueError
depends_on(df, determinant_cols, target) ==
    IF \E i \in DOMAIN determinant_cols : ~In(determinant_cols[i], df.columns) THEN FALSE
    ELSE IF ~In(target, df.columns) THEN FALSE
    ELSE LET df2 == Filter(df.rows, LAMBDA r :
                        /\ \A i \in DOMAIN determinant_cols : r[determinant_cols[i]] # NULL
                        /\ r[target] # NULL)
             keys == {project(df2[i], determinant_cols) : i \in DOMAIN df2}
             grp(k) == Filter(df2, LAMBDA r : project(r, determinant_cols) = k)
             nunique(k) == Cardinality({grp(k)[i][target] : i \in DOMAIN grp(k)})
             unique_per_group == \A k \in keys : nunique(k) = 1
             has_support == \E k \in keys : Len(grp(k)) >= 2
         IN IF df2 = <<>> THEN FALSE
            ELSE IF determinant_cols = <<>> THEN ValueError
            ELSE unique_per_group /\ has_support

SUFFIX_DET == <<"_","d","e","t">>

\* dict[key] = value
dict_set(dict, key, value) == [k \in DOMAIN dict \cup {key} |-> IF k = key THEN value ELSE dict[k]]

normalizer_types(meta, cols) == [c \in set(cols) |-> get(meta.types, c, DEFAULT_TYPE)]

\* one turn of the loop over the proper subsets of the key; st is
\* [df, schema, tables_data, created]
normalize_2NF_step(table_name, pk, st, sub) ==
    LET meta == st.schema[table_name]
        dependents == Filter(st.df.columns, LAMBDA col :
                          ~In(col, pk) /\ depends_on(st.df, sub, col))
        new_name == table_name \o <<"_">> \o join(<<"_">>, sub) \o SUFFIX_DET
        cols == sub \o dependents
        new_fks == Map(sub, LAMBDA x : <<x, new_name, x>>)
        with_new == dict_set(st.schema, new_name,
                        [attrs |-> cols, types |-> normalizer_types(meta, cols),
                         pk |-> sub, fks |-> <<>>])
    IN IF dependents = <<>> THEN st
       ELSE [df |-> df_drop(st.df, dependents),
             schema |-> [with_new EXCEPT ![table_name].fks = append_missing(@, new_fks)],
             tables_data |-> dict_set(st.tables_data, new_name,
                                 df_drop_duplicates(df_select(st.df, cols))),
             created |-> Append(st.created, <<new_name, sub, dependents>>)]

RECURSIVE normalize_2NF_loop(_, _, _, _)
normalize_2NF_loop(table_name, pk, st, subs) ==
    IF subs = <<>> THEN st
    ELSE normalize_2NF_loop(table_name, pk,
            normalize_2NF_step(table_name, pk, st, subs[1]), Tail(subs))

normalize_2NF(table_name, schema, tables_data) ==
    LET meta == schema[table_name]
        pk == meta.pk
    IN IF Len(pk) < 2
       THEN [schema |-> schema, tables_data |-> tables_data, created |-> <<>>]
       ELSE LET st == normalize_2NF_loop(table_name, pk,
                        [df |-> tables_data[table_name], schema |-> schema,
                         tables_data |-> tables_data, created |-> <<>>],
                        proper_subsets(pk))
                df == df_drop_duplicates(st.df)
            IN [schema |-> [st.schema EXCEPT
                               ![table_name].attrs = df.columns,
                               ![table_name].types = normalizer_types(meta, df.columns)],
                tables_data |-> dict_set(st.tables_data, table_name, df),
                created |-> st.created]

\* detect_tables: the declared attributes, types and key of one table; the
\* key is the attributes whose llave holds PK in any case
detect_table(rows_csv, t) ==
    LET chunk == Filter(rows_csv, LAMBDA r : r.tabla = t)
    IN [attrs |-> Map(chunk, LAMBDA r : r.atributo),
        types |-> [a \in {chunk[i].atributo : i \in DOMAIN chunk} |->
                     LET rs == Filter(chunk, LAMBDA r : r.atributo = a)
                     IN rs[Len(rs)].tipo],
        pk |-> Map(Filter(chunk, LAMBDA r : contains(lower(r.llave), <<"p", "k">>)),
                   LAMBDA r : r.atributo),
        fks |-> <<>>]

\* ------------------------------------------------------------------------
\* scripts/normalizer.py: normalizar_pipeline.  A dict is a function and,
\* where the order of its keys shows, a list of its keys in insertion order.
\* ------------------------------------------------------------------------

MULTI_SEPARATORS == <<",", ";", "/", "|">>

\* re.sub(r"^[\[\(\{]\s*|\s*[\]\)\}]$", "", v) of the stripped text: an
\* opening bracket at the start goes with the blanks after it, a closing
\* bracket at the end with the blanks before it; an empty text is None
_clean_value(v) ==
    IF v = NULL THEN NULL
    ELSE LET s == strip(v)
             opened == IF s # <<>> /\ s[1] \in {"[", "(", "{"} THEN lstrip(Tail(s)) ELSE s
             closed == IF opened # <<>> /\ opened[Len(opened)] \in {"]", ")", "}"}
                       THEN rstrip_set(Take(opened, Len(opened) - 1), WHITESPACE)
                       ELSE opened
         IN IF closed # <<>> THEN closed ELSE NULL

\* the parts of the first separator that cuts the text in two or more
RECURSIVE split_by_first(_, _)
split_by_first(raw, seps) ==
    IF seps = <<>> THEN <<raw>>
    ELSE LET parts == Filter(Map(split(raw, <<seps[1]>>), strip), LAMBDA q : q # <<>>)
         IN IF contains(raw, <<seps[1]>>) /\ Len(parts) > 1 THEN parts
            ELSE split_by_first(raw, Tail(seps))

split_multivalue(value) ==
    IF value = NULL THEN <<>>
    ELSE LET raw == _clean_value(value)
         IN IF raw = NULL THEN <<>> ELSE split_by_first(raw, MULTI_SEPARATORS)

\* df.dropna(how="all"): the positions of the rows that hold a value
not_all_nan(df) == {i \in DOMAIN df.rows : \E c \in set(df.columns) : df.rows[i][c] # NULL}

RECURSIVE pick_rows(_, _, _)
pick_rows(rows, keep, i) ==
    IF i > Len(rows) THEN <<>>
    ELSE (IF i \in keep THEN <<rows[i]>> ELSE <<>>) \o pick_rows(rows, keep, i + 1)

df_dropna_all(df) == [columns |-> df.columns, rows |-> pick_rows(df.rows, not_all_nan(df), 1)]

ID_AUTO == <<"_","i","d","_","a","u","t","o">>

\* the rows of the child table of the multivalued column mv: one per value
\* of the column in a row of base_df; index holds the labels of the rows of
\* base_df
child_rows(table_name, meta, base_df, index, mv, columns) ==
    LET new_row(k, v) ==
            [c \in set(columns) |->
                IF c = mv THEN _clean_value(v)
                ELSE IF In(c, base_df.columns) THEN base_df.rows[k][c]
                ELSE IF Len(meta.pk) = 0 /\ c = table_name \o ID_AUTO
                     THEN <<"int", index[k]>>
                ELSE NULL]
    IN Flatten([k \in DOMAIN base_df.rows |->
                  Map(split_multivalue(base_df.rows[k][mv]), LAMBDA v : new_row(k, v))])

\* the entry of the child table child_df of the column mv
child_table(table_name, meta, mv, pk_cols, child_df) ==
    [name |-> table_name \o <<"_">> \o mv,
     df |-> child_df,
     meta |-> [attrs |-> child_df.columns,
               types |-> normalizer_types(meta, child_df.columns),
               pk |-> pk_cols \o <<mv>>,
               fks |-> Map(pk_cols, LAMBDA x : <<x, table_name, x>>)]]

\* the child table of one multivalued column
child_of(table_name, meta, base_df, index, mv) ==
    LET pk_cols == IF Len(meta.pk) > 0 THEN meta.pk ELSE <<table_name \o ID_AUTO>>
        columns == pk_cols \o (IF In(mv, pk_cols) THEN <<>> ELSE <<mv>>)
    IN child_table(table_name, meta, mv, pk_cols,
          df_drop_duplicates(df_dropna_all(
              [columns |-> columns,
               rows |-> child_rows(table_name, meta, base_df, index, mv, columns)])))

\* the end of normalize_1NF: the schema and the tables of the base table,
\* left as final_df, and of its children
normalize_1NF_tables(table_name, meta, multival_cols, children, final_df) ==
    LET child_names == Map(children, LAMBDA ch : ch.name)
        last(name) == CHOOSE i \in DOMAIN children :
                         children[i].name = name
                         /\ \A j \in DOMAIN children : children[j].name = name => j <= i
        meta_pk == IF Len(meta.pk) = 0 /\ In(table_name \o ID_AUTO, final_df.columns)
                   THEN <<table_name \o ID_AUTO>> ELSE meta.pk
        base_meta == [attrs |-> final_df.columns,
                      types |-> normalizer_types(meta, final_df.columns),
                      pk |-> meta_pk,
                      fks |-> meta.fks]
        names == set(child_names) \cup {table_name}
    IN [schema |-> [n \in names |-> IF n = table_name THEN base_meta ELSE children[last(n)].meta],
        tables |-> [n \in names |-> IF n = table_name THEN final_df ELSE children[last(n)].df],
        order |-> append_missing(<<>>, child_names \o <<table_name>>),
        multival_cols |-> multival_cols]

\* normalize_1NF once the multivalued columns are known
normalize_1NF_children(table_name, meta, base_df, index, multival_cols) ==
    normalize_1NF_tables(table_name, meta, multival_cols,
        Map(multival_cols, LAMBDA mv : child_of(table_name, meta, base_df, index, mv)),
        df_drop_duplicates(df_dropna_all(df_drop(base_df, multival_cols))))

\* normalize_1NF on the base frame: the columns with a cell of two or more
\* values are the multivalued ones
normalize_1NF_base(table_name, meta, base_cols, base_df, index) ==
    normalize_1NF_children(table_name, meta, base_df, index,
        Filter(base_cols, LAMBDA col :
            \E k \in DOMAIN base_df.rows :
                Len(split_multivalue(base_df.rows[k][col])) > 1))

\* normalize_1NF(table_name, meta, df): [schema, tables, order, multival_cols]
normalize_1NF(table_name, meta, df, index0) ==
    LET base_cols == Filter(meta.attrs, LAMBDA c : In(c, df.columns))
        selected == df_select(df, base_cols)
    IN normalize_1NF_base(table_name, meta, base_cols, df_dropna_all(selected),
                          pick_rows(index0, not_all_nan(selected), 1))

DIM_INFIX == <<"_","d","i","m","_">>

\* one turn of the loop of normalize_3NF over the non-key columns
normalize_3NF_step(table_name, non_keys, st, det) ==
    LET meta == st.schema[table_name]
        dependents == Filter(non_keys, LAMBDA target :
                          target # det /\ depends_on(st.df, <<det>>, target))
        new_name == table_name \o DIM_INFIX \o det
        cols == <<det>> \o dependents
        with_new == dict_set(st.schema, new_name,
                        [attrs |-> cols, types |-> normalizer_types(meta, cols),
                         pk |-> <<det>>, fks |-> <<>>])
    IN IF In(det, st.used_as_det) \/ dependents = <<>> THEN st
       ELSE [df |-> df_drop(st.df, dependents),
             schema |-> [with_new EXCEPT ![table_name].fks =
                                            append_missing(@, << <<det, new_name, det>> >>)],
             tables_data |-> dict_set(st.tables_data, new_name,
                                 df_drop_duplicates(df_select(st.df, cols))),
             created |-> Append(st.created, <<new_name, det, dependents>>),
             used_as_det |-> Append(st.used_as_det, det)]

RECURSIVE normalize_3NF_loop(_, _, _, _)
normalize_3NF_loop(table_name, non_keys, st, dets) ==
    IF dets = <<>> THEN st
    ELSE normalize_3NF_loop(table_name, non_keys,
            normalize_3NF_step(table_name, non_keys, st, dets[1]), Tail(dets))

normalize_3NF(table_name, schema, tables_data) ==
    LET meta == schema[table_name]
        df0 == tables_data[table_name]
        non_keys == Filter(df0.columns, LAMBDA c : ~In(c, meta.pk))
        st == normalize_3NF_loop(table_name, non_keys,
                 [df |-> df0, schema |-> schema, tables_data |-> tables_data,
                  created |-> <<>>, used_as_det |-> <<>>],
                 non_keys)
        df == df_drop_duplicates(st.df)
    IN [schema |-> [st.schema EXCEPT
                       ![table_name].attrs = df.columns,
                       ![table_name].types = normalizer_types(meta, df.columns)],
        tables_data |-> dict_set(st.tables_data, table_name, df),
        created |-> st.created]

\* merge_schemas, merge_tables: the added keys override and new keys go last
merge(base, add) == [k \in DOMAIN base \cup DOMAIN add |-> IF k \in DOMAIN add THEN add[k] ELSE base[k]]

N_tabla_mark == <<"_","_","t","a","b","l","a">>

\* the end of the body of the loop of normalizar_pipeline: s1, s2 and s3
\* are the results of the three normal forms
pipeline_result(acc, t, s1, s2, s3) ==
    [schema |-> s3.schema,
     tables |-> s3.tables_data,
     order |-> append_missing(acc.order,
                  s1.order \o Map(s2.created, LAMBDA c : c[1])
                           \o Map(s3.created, LAMBDA c : c[1])),
     resumen |-> Append(acc.resumen,
                    [tabla |-> t, multival |-> s1.multival_cols,
                     created_2fn |-> s2.created, created_3fn |-> s3.created])]

pipeline_3NF(acc, t, s1, s2) ==
    pipeline_result(acc, t, s1, s2, normalize_3NF(t, s2.schema, s2.tables_data))

pipeline_2NF(acc, t, s1) ==
    pipeline_3NF(acc, t, s1,
        normalize_2NF(t, merge(acc.schema, s1.schema), merge(acc.tables, s1.tables)))

\* the body of the loop of normalizar_pipeline for the table t; acc is
\* [schema, tables, order, resumen]
pipeline_step(base_tables, datos_df, acc, t) ==
    LET meta == base_tables[t]
        cols == Filter(meta.attrs, LAMBDA c : In(c, datos_df.columns))
        marked == In(N_tabla_mark, datos_df.columns)
        mask == {i \in DOMAIN datos_df.rows :
                    ~marked \/ (datos_df.rows[i][N_tabla_mark] # NULL
                                /\ strip(str(datos_df.rows[i][N_tabla_mark])) = t)}
        df_t == df_select([columns |-> datos_df.columns,
                           rows |-> pick_rows(datos_df.rows, mask, 1)], cols)
        index0 == pick_rows([i \in DOMAIN datos_df.rows |-> i - 1], mask, 1)
    IN IF cols = <<>> THEN acc
       ELSE pipeline_2NF(acc, t, normalize_1NF(t, meta, df_t, index0))

RECURSIVE pipeline_loop(_, _, _, _)
pipeline_loop(base_tables, datos_df, acc, ts) ==
    IF ts = <<>> THEN acc
    ELSE pipeline_loop(base_tables, datos_df,
            pipeline_step(base_tables, datos_df, acc, ts[1]), Tail(ts))

\* detect_tables: groupby('tabla') visits the tables in sorted order
detect_tables(estructura_df) ==
    [t \in {estructura_df[i].tabla : i \in DOMAIN estructura_df} |-> detect_table(estructura_df, t)]

normalizar_pipeline(estructura_df, datos_df) ==
    LET base_tables == detect_tables(estructura_df)
    IN pipeline_loop(base_tables, datos_df,
          [schema |-> <<>>, tables |-> <<>>, order |-> <<>>, resumen |-> <<>>],
          sorted(DOMAIN base_tables))

map_sql_type(t) ==
    LET s == upper(t)
        any(words) == \E w \in words : contains(s, w)
    IN IF any({<<"I","N","T">>, <<"B","I","G","I","N","T">>, <<"S","M","A","L","L","I","N","T">>, <<"T","I","N","Y","I","N","T">>}) THEN s
       ELSE IF any({<<"D","E","C","I","M","A","L">>, <<"N","U","M","E","R","I","C">>, <<"F","L","O","A","T">>, <<"R","E","A","L">>, <<"M","O","N","E","Y">>}) THEN s
       ELSE IF any({<<"D","A","T","E">>, <<"T","I","M","E">>}) THEN s
       ELSE IF any({<<"B","I","T">>, <<"B","O","O","L">>}) THEN <<"B","I","T">>
       ELSE DEFAULT_TYPE

\* the CREATE TABLE statement of generate_sql for the table t
create_stmt(t, meta) ==
    LET cols_defs == Map(meta.attrs, LAMBDA col :
                        <<"    ", "[">> \o col \o <<"]", " ">>
                        \o map_sql_type(get(meta.types, col, DEFAULT_TYPE))
                        \o (IF In(col, meta.pk) THEN <<" ", "NOT NULL">> ELSE <<" ", "NULL">>))
        pk_stmt == IF meta.pk # <<>>
                   THEN <<",", "\n", "    ", "CONSTRAINT", " ", "[", "PK_">> \o t
                        \o <<"]", " ", "PRIMARY KEY", " (">>
                        \o join(<<", ">>, Map(meta.pk, LAMBDA c : <<"[">> \o c \o <<"]">>))
                        \o <<")">>
                   ELSE <<>>
    IN <<"CREATE TABLE", " ", "[">> \o t \o <<"]", " (", "\n">>
       \o join(<<",", "\n">>, cols_defs) \o pk_stmt \o <<"\n", ");", "\n">>

\* the ALTER TABLE statements of generate_sql for the foreign keys of t
fk_stmts(t, meta) ==
    [i \in DOMAIN meta.fks |->
        <<"ALTER TABLE", " ", "[">> \o t \o <<"]", " ", "ADD CONSTRAINT", " ", "[", "FK_">>
        \o t \o <<"_">> \o meta.fks[i][1] \o <<"_">> \o itoa(i)
        \o <<"]", " ", "FOREIGN KEY", " (", "[">> \o meta.fks[i][1] \o <<"]", ") ">>
        \o <<"REFERENCES", " ", "[">> \o meta.fks[i][2] \o <<"]", "(", "[">>
        \o meta.fks[i][3] \o <<"]", ");", "\n">>]

\* normalizer.generate_sql(schema); order is the insertion order of schema
normalizer_generate_sql(schema, order) ==
    join(NL, Map(order, LAMBDA t : create_stmt(t, schema[t]))
             \o Flatten(Map(order, LAMBDA t : fk_stmts(t, schema[t]))))

\* ------------------------------------------------------------------------
\* The analysed situations: an uploaded structure, a table of the database
\* and the analysis parameters
\* ------------------------------------------------------------------------

MaxRows == 2

N_Orders == <<"O","r","d","e","r","s">>

N_OrderId == <<"O","r","d","e","r","I","d">>

N_ProductId == <<"P","r","o","d","u","c","t","I","d">>

N_Discount == <<"D","i","s","c","o","u","n","t">>

N_Customers == <<"C","u","s","t","o","m","e","r","s">>

N_Id == <<"I","d">>

N_ZipCode == <<"Z","i","p","C","o","d","e">>

N_City == <<"C","i","t","y">>

N_dbo == <<"d","b","o">>

N_T == <<"T">>

N_A == <<"A">>

N_B == <<"B">>

N_C == <<"C">>

N_D == <<"D">>

N_AplusB == <<"A", "+", "B">>

N_P1 == <<"P", "1">>

N_P2 == <<"P", "2">>

V1 == <<"1">>

V2 == <<"2">>

INT == <<"INT">>

NVARCHAR50 == <<"NVARCHAR(50)">>

PK == <<"P", "K">>

Row(t, a, ty, l, fd) ==
    [tabla |-> t, atributo |-> a, tipo |-> ty, llave |-> l, dependencia_funcional |-> fd]

\* an FD cell 'A,B->C,D'
FdCell(lhs, rhs) == join(<<",">>, lhs) \o <<"-", ">">> \o join(<<",">>, rhs)

Cfg(sample_rows, infer, check_nulls) ==
    [sample_rows |-> sample_rows, infer_singlecol_fds |-> infer, fd_check_nulls |-> check_nulls]

Conn(cols_sql, pk_cols, unique_sets, rows) ==
    [cols_sql |-> cols_sql, pk_cols |-> pk_cols, unique_sets |-> unique_sets, rows |-> rows]

Scenario(table, rows_csv, conn, cfg_) ==
    [schema |-> N_dbo, table |-> table, tabla_csv |-> table,
     rows_csv |-> rows_csv, conn |-> conn, cfg |-> cfg_]

\* the tables of at most MaxRows rows over the given keys, in key order
\* (the order of the clustered primary key), one row per key
RECURSIVE TablesOver(_, _, _)
TablesOver(keys, rest, n) ==
    IF keys = <<>> \/ n = 0 THEN {<<>>}
    ELSE TablesOver(Tail(keys), rest, n)
         \cup {<<k @@ r>> \o t : k \in {keys[1]}, r \in rest, t \in TablesOver(Tail(keys), rest, n - 1)}

\* Orders(OrderId, ProductId, Discount), key (OrderId, ProductId)
OrdersKeys ==
    << [x \in {N_OrderId, N_ProductId} |-> V1],
       [x \in {N_OrderId, N_ProductId} |-> IF x = N_OrderId THEN V1 ELSE V2],
       [x \in {N_OrderId, N_ProductId} |-> IF x = N_OrderId THEN V2 ELSE V1],
       [x \in {N_OrderId, N_ProductId} |-> V2] >>

OrdersRest == [{N_Discount} -> {NULL, <<"5">>, <<"a", ",", "b">>}]

OrdersScenarios ==
    {Scenario(N_Orders,
              <<Row(N_Orders, N_OrderId, INT, PK, <<>>),
                Row(N_Orders, N_ProductId, INT, PK, <<>>),
                Row(N_Orders, N_Discount, NVARCHAR50, <<>>, fd)>>,
              Conn(<<N_OrderId, N_ProductId, N_Discount>>, <<N_OrderId, N_ProductId>>, <<>>, rows),
              Cfg(0, TRUE, nulls)) :
        fd \in {<<>>, FdCell(<<N_ProductId>>, <<N_Discount>>)},
        rows \in TablesOver(OrdersKeys, OrdersRest, MaxRows),
        nulls \in BOOLEAN}

\* Customers(Id, ZipCode, City), key Id
CustomersKeys == << [x \in {N_Id} |-> V1], [x \in {N_Id} |-> V2], [x \in {N_Id} |-> <<"3">>] >>

CustomersRest ==
    [{N_ZipCode, N_City} -> {NULL, <<"x">>, <<"[", "y">>}]

CustomersScenarios ==
    {Scenario(N_Customers,
              <<Row(N_Customers, N_Id, INT, PK, <<>>),
                Row(N_Customers, N_ZipCode, NVARCHAR50, <<>>, <<>>),
                Row(N_Customers, N_City, NVARCHAR50, <<>>, fd)>>,
              Conn(<<N_Id, N_ZipCode, N_City>>, <<N_Id>>, <<>>, rows),
              Cfg(limit, infer, FALSE)) :
        fd \in {<<>>, FdCell(<<N_ZipCode>>, <<N_City>>)},
        rows \in {t \in TablesOver(CustomersKeys, CustomersRest, MaxRows) :
                     \A i \in DOMAIN t : t[i][N_Id] = CustomersKeys[i][N_Id]},
        limit \in {0, 1},
        infer \in BOOLEAN}

\* T(A, B, C, D), key (A, B, C)
T3Keys ==
    << [x \in {N_A, N_B, N_C} |-> V1],
       [x \in {N_A, N_B, N_C} |-> IF x = N_A THEN V1 ELSE V2],
       [x \in {N_A, N_B, N_C} |-> IF x = N_B THEN V1 ELSE V2],
       [x \in {N_A, N_B, N_C} |-> IF x = N_C THEN V1 ELSE V2] >>

T3Rest == [{N_D} -> {NULL, <<"x">>, <<"y">>}]

T3Scenarios ==
    {Scenario(N_T,
              <<Row(N_T, N_A, INT, PK, <<>>), Row(N_T, N_B, INT, PK, <<>>),
                Row(N_T, N_C, INT, PK, <<>>), Row(N_T, N_D, INT, <<>>, <<>>)>>,
              Conn(<<N_A, N_B, N_C, N_D>>, <<N_A, N_B, N_C>>, <<>>, rows),
              Cfg(0, FALSE, nulls)) :
        rows \in TablesOver(T3Keys, T3Rest, MaxRows),
        nulls \in BOOLEAN}

\* T(A, B, C, D, [A+B]) with declared dependencies, keys and unique
\* indexes of several shapes
DeclCells ==
    {FdCell(lhs, rhs) :
        lhs \in {<<N_A>>, <<N_B>>, <<N_C>>, <<N_A, N_B>>, <<N_B, N_A>>, <<N_C, N_D>>, <<N_AplusB>>},
        rhs \in {<<N_D>>, <<N_C, N_D>>, <<N_B>>}}
    \cup {FdCell(<<N_C>>, <<N_D>>) \o <<";">> \o FdCell(<<N_C>>, <<N_B>>),
          FdCell(<<N_B>>, <<N_D>>) \o <<" ", ";", " ">> \o FdCell(<<N_A, N_B>>, <<N_D>>)}

DeclKeys == {<<>>, <<N_A>>, <<N_A, N_B>>}

DeclUniques == {<<>>, << <<N_C>> >>, << <<N_B>>, <<N_D, N_C>> >>}

DeclRow == [x \in {N_A, N_B, N_C, N_D, N_AplusB} |-> V1]

DeclScenarios ==
    {Scenario(N_T,
              <<Row(N_T, N_A, INT, IF In(N_A, pk) THEN PK ELSE <<>>, <<>>),
                Row(N_T, N_B, INT, IF In(N_B, pk) THEN PK ELSE <<>>, <<>>),
                Row(N_T, N_C, INT, <<>>, <<>>),
                Row(N_T, N_D, INT, <<>>, cell),
                Row(N_T, N_AplusB, INT, <<>>, <<>>)>>,
              Conn(<<N_A, N_B, N_C, N_D, N_AplusB>>, pk, uniques, <<DeclRow>>),
              Cfg(0, FALSE, FALSE)) :
        cell \in DeclCells, pk \in DeclKeys, uniques \in DeclUniques}

\* T(A, C, P1) declared as (A, P1, P2, C): P2 is not in the catalog
MismatchKeys == << [x \in {N_A} |-> V1], [x \in {N_A} |-> V2], [x \in {N_A} |-> <<"3">>] >>

MismatchRest ==
    {r \in [{N_C, N_P1} -> {<<"x">>, <<"y", "|", "z">>, <<"{", "w">>}] : r[N_P1] # <<"{", "w">>}

MismatchScenarios ==
    {Scenario(N_T,
              <<Row(N_T, N_A, INT, PK, <<>>), Row(N_T, N_P1, INT, <<>>, <<>>),
                Row(N_T, N_P2, INT, <<>>, <<>>), Row(N_T, N_C, INT, <<>>, <<>>)>>,
              Conn(<<N_A, N_C, N_P1>>, <<N_A>>, <<>>, rows),
              Cfg(limit, FALSE, FALSE)) :
        rows \in {t \in TablesOver(MismatchKeys, MismatchRest, MaxRows) :
                     \A i \in DOMAIN t : t[i][N_A] = MismatchKeys[i][N_A]},
        limit \in {0, 1, 2}}

N_K == <<"K">>

N_u1 == <<"_", "1">>

N_u2 == <<"_", "2">>

N_tel_1 == <<"t","e","l","_","1">>

N_tel_2 == <<"t","e","l","_","2">>

\* T(A, _1, _2, tel_1, tel_2), key A: repeated groups of the prefixes '_'
\* and 'tel_', the members of a group declared with different types
GroupScenarios ==
    {Scenario(N_T,
              <<Row(N_T, N_A, INT, PK, <<>>)>> \o members,
              Conn(<<N_A, N_u1, N_u2, N_tel_1, N_tel_2>>, pk, <<>>,
                   << [x \in {N_A, N_u1, N_u2, N_tel_1, N_tel_2} |-> V1] >>),
              Cfg(0, FALSE, FALSE)) :
        members \in { <<Row(N_T, N_u1, INT, <<>>, <<>>), Row(N_T, N_u2, NVARCHAR50, <<>>, <<>>)>>,
                      <<Row(N_T, N_tel_1, NVARCHAR50, <<>>, <<>>), Row(N_T, N_u1, INT, <<>>, <<>>),
                        Row(N_T, N_tel_2, INT, <<>>, <<>>), Row(N_T, N_u2, INT, <<>>, <<>>)>> },
        pk \in {<<>>, <<N_A>>}}

\* T(A, K, D), key (A, K) or (K, A), of which the structure declares A and
\* D only
UndeclaredKeyKeys ==
    << [x \in {N_A, N_K} |-> V1], [x \in {N_A, N_K} |-> IF x = N_A THEN V1 ELSE V2],
       [x \in {N_A, N_K} |-> IF x = N_A THEN V2 ELSE V1] >>

UndeclaredKeyScenarios ==
    {Scenario(N_T,
              <<Row(N_T, N_A, INT, PK, <<>>), Row(N_T, N_D, INT, <<>>, <<>>)>>,
              Conn(<<N_A, N_K, N_D>>, pk, <<>>, rows),
              Cfg(0, infer, FALSE)) :
        rows \in TablesOver(UndeclaredKeyKeys, [{N_D} -> {V1, V2}], MaxRows),
        pk \in {<<N_A, N_K>>, <<N_K, N_A>>},
        infer \in BOOLEAN}

\* T(A, C), key A, declared as (A, C, P2) with the dependency C -> P2: P2
\* is declared and is not in the catalog
UndeclaredColumnScenarios ==
    {Scenario(N_T,
              <<Row(N_T, N_A, INT, PK, <<>>), Row(N_T, N_C, INT, <<>>, <<>>),
                Row(N_T, N_P2, INT, <<>>, FdCell(<<N_C>>, <<N_P2>>))>>,
              Conn(<<N_A, N_C>>, <<N_A>>, <<>>, rows),
              Cfg(0, infer, FALSE)) :
        rows \in TablesOver(<< [x \in {N_A} |-> V1], [x \in {N_A} |-> V2] >>,
                            [{N_C} -> {V1, V2}], MaxRows),
        infer \in BOOLEAN}

Scenarios ==
    OrdersScenarios \cup CustomersScenarios \cup T3Scenarios \cup DeclScenarios
    \cup MismatchScenarios \cup GroupScenarios \cup UndeclaredKeyScenarios
    \cup UndeclaredColumnScenarios

\* ------------------------------------------------------------------------
\* The analyser and the normaliser as a state machine
\* ------------------------------------------------------------------------

Init ==
    \E sc \in Scenarios :
        /\ pc = "start"
        /\ estructura_rows = sc.rows_csv
        /\ db = sc.conn
        /\ cfg = sc.cfg
        /\ arg = [schema |-> sc.schema, table |-> sc.table, tabla_csv |-> sc.tabla_csv]
        /\ queries = <<>>
        /\ sample = <<>>
        /\ analysis_result = <<>>
        /\ plan = <<>>
        /\ sql = <<>>
        /\ norm = <<>>
        /\ ret = <<>>
        /\ session = <<>> /\ conns = <<>> /\ log = <<>>

declared_attrs == get(estructura_por_tabla(estructura_rows).attrs, arg.tabla_csv, <<>>)

\* analysis.analyze_table(conn, schema, table, tabla_csv, rows, cfg)
AnalyzeTable ==
    /\ pc = "start"
    /\ LET cols_to_check == cols_to_check_of(declared_attrs, get_columns(db))
       IN \E smp \in IF cols_to_check # <<>>
                     THEN fetch_sample_rows(db, cols_to_check, cfg.sample_rows)
                     ELSE {<<>>} :
             /\ sample' = smp
             /\ analysis_result' = analyze_table(db, arg.schema, arg.table, arg.tabla_csv,
                                                 estructura_rows, cfg, smp)
    /\ queries' = queries_of(db, arg.tabla_csv, estructura_rows, cfg)
    /\ pc' = "analyzed"
    /\ UNCHANGED <<appvars, estructura_rows, db, cfg, plan, sql, norm, arg, ret>>

\* generators.generate_sql(schema, table, tabla_csv, rows, result)
GenerateSql ==
    /\ pc = "analyzed"
    /\ LET p == build_plan(arg.schema, arg.table, arg.tabla_csv, estructura_rows, analysis_result)
       IN /\ plan' = p
          /\ sql' = render_sql(arg.schema, arg.table, p)
    /\ pc' = "generated"
    /\ UNCHANGED <<appvars, estructura_rows, db, cfg, queries, sample, analysis_result, norm, arg, ret>>

\* a schema and data as detect_tables and the column selection of
\* normalizar_pipeline build them for the table: the declared attributes
\* found in the data, with the rows of the table (the 1NF step of the
\* pipeline is not modelled)
normalizer_input ==
    LET meta == detect_table(estructura_rows, arg.tabla_csv)
        cols == Filter(meta.attrs, LAMBDA c : In(c, db.cols_sql))
        t == arg.tabla_csv
    IN [schema |-> [x \in {t} |-> [attrs |-> cols,
                                    types |-> normalizer_types(meta, cols),
                                    pk |-> meta.pk, fks |-> meta.fks]],
        tables_data |-> [x \in {t} |-> df_select([columns |-> db.cols_sql, rows |-> db.rows], cols)]]

\* normalizer.normalize_2NF(table_name, schema, tables_data)
Normalize2NF ==
    /\ pc = "start"
    /\ norm' = [input |-> normalizer_input,
                output |-> normalize_2NF(arg.tabla_csv, normalizer_input.schema,
                                         normalizer_input.tables_data)]
    /\ pc' = "normalized"
    /\ UNCHANGED <<appvars, estructura_rows, db, cfg, queries, sample, analysis_result, plan, sql,
                   arg, ret>>

Next == AnalyzeTable \/ GenerateSql \/ Normalize2NF

Spec == Init /\ [][Next]_vars

\* ------------------------------------------------------------------------
\* analyze_table, then generate_sql: the plans and the scripts
\* ------------------------------------------------------------------------

\* the scenarios whose scripts are examined: of the Customers tables those
\* of at most two rows, read whole
PlanScenarios ==
    (Scenarios \ CustomersScenarios)
    \cup {sc \in CustomersScenarios : sc.cfg.sample_rows = 0 /\ Len(sc.conn.rows) <= 2}

InitPlan ==
    \E sc \in PlanScenarios :
        /\ pc = "start"
        /\ estructura_rows = sc.rows_csv
        /\ db = sc.conn
        /\ cfg = sc.cfg
        /\ arg = [schema |-> sc.schema, table |-> sc.table, tabla_csv |-> sc.tabla_csv]
        /\ queries = <<>>
        /\ sample = <<>>
        /\ analysis_result = <<>>
        /\ plan = <<>>
        /\ sql = <<>>
        /\ norm = <<>>
        /\ ret = <<>>
        /\ session = <<>> /\ conns = <<>> /\ log = <<>>

NextPlan == AnalyzeTable \/ GenerateSql

SpecPlan == InitPlan /\ [][NextPlan]_vars

\* ------------------------------------------------------------------------
\* analyze_table run twice on the same arguments and database
\* ------------------------------------------------------------------------

\* a second analysis.analyze_table(conn, schema, table, tabla_csv, rows,
\* cfg) after the first, nothing having changed in between; ret holds what
\* the second run fetched and returned
AnalyzeTableAgain ==
    /\ pc = "analyzed"
    /\ LET cols_to_check == cols_to_check_of(declared_attrs, get_columns(db))
       IN \E smp \in IF cols_to_check # <<>>
                     THEN fetch_sample_rows(db, cols_to_check, cfg.sample_rows)
                     ELSE {<<>>} :
             ret' = [sample |-> smp,
                     report |-> analyze_table(db, arg.schema, arg.table, arg.tabla_csv,
                                              estructura_rows, cfg, smp)]
    /\ queries' = queries \o queries_of(db, arg.tabla_csv, estructura_rows, cfg)
    /\ pc' = "analyzed_twice"
    /\ UNCHANGED <<appvars, estructura_rows, db, cfg, sample, analysis_result, plan, sql, norm, arg>>

NextTwice == AnalyzeTable \/ AnalyzeTableAgain

SpecTwice == Init /\ [][NextTwice]_vars

\* ------------------------------------------------------------------------
\* analyze_table with a failing query
\* ------------------------------------------------------------------------

\* cur.execute(q) for each query of qs in turn, the fail_at-th one raising
\* (none when fail_at = 0): nothing catches the exception, so the queries
\* after it are not issued
run_queries_retry(qs, fail_at) ==
    IF fail_at \in DOMAIN qs
    THEN [raised |-> TRUE, issued |-> Take(qs, fail_at) \o <<qs[fail_at]>>]
    ELSE [raised |-> FALSE, issued |-> qs]

run_queries(qs, fail_at) ==
    IF fail_at \in DOMAIN qs
    THEN [raised |-> TRUE, issued |-> Take(qs, fail_at)]
    ELSE [raised |-> FALSE, issued |-> qs]

\* analysis.analyze_table(...) against a connection on which the fail_at-th
\* query raises pyodbc.Error; ret records which query failed
AnalyzeTableMayFail ==
    /\ pc = "start"
    /\ \E fail_at \in 0..Len(queries_of(db, arg.tabla_csv, estructura_rows, cfg)) :
          LET run == run_queries(queries_of(db, arg.tabla_csv, estructura_rows, cfg), fail_at)
              cols_to_check == cols_to_check_of(declared_attrs, get_columns(db))
          IN /\ queries' = run.issued
             /\ ret' = [fail_at |-> fail_at]
             /\ IF run.raised
                THEN /\ pc' = "raised"
                     /\ UNCHANGED <<sample, analysis_result>>
                ELSE /\ pc' = "analyzed"
                     /\ \E smp \in IF cols_to_check # <<>>
                                   THEN fetch_sample_rows(db, cols_to_check, cfg.sample_rows)
                                   ELSE {<<>>} :
                           /\ sample' = smp
                           /\ analysis_result' =
                                 analyze_table(db, arg.schema, arg.table, arg.tabla_csv,
                                               estructura_rows, cfg, smp)
    /\ UNCHANGED <<appvars, estructura_rows, db, cfg, plan, sql, norm, arg>>

SpecFail == Init /\ [][AnalyzeTableMayFail]_vars

\* ------------------------------------------------------------------------
\* app.py: the requests of the web application
\* ------------------------------------------------------------------------

MaxRequests == 4

H_tabla == <<"t","a","b","l","a">>

H_atributo == <<"a","t","r","i","b","u","t","o">>

H_tipo == <<"t","i","p","o">>

H_llave == <<"l","l","a","v","e">>

H_df == <<"d","e","p","e","n","d","e","n","c","i","a","_","f","u","n","c","i","o","n","a","l">>

T_INT == <<"I","N","T">>

N_U == <<"U">>

\* config.ANALYSIS_CFG
ANALYSIS_CFG == Cfg(50000, TRUE, FALSE)

\* config.Config.REQUIRE_FK_TARGET_IN_CSV
REQUIRE_FK_TARGET_IN_CSV == FALSE

\* what parse_csv returns for an uploaded file: the headers and the rows, a
\* cell under a header the file lacks being read as ''
Csv(headers, rows) == [headers |-> headers, rows |-> rows]

AllHeaders == <<H_tabla, H_atributo, H_tipo, H_llave, H_df>>

Uploads ==
    { \* a valid structure of the tables T and U
      Csv(AllHeaders,
          <<Row(N_T, N_A, T_INT, PK, <<>>), Row(N_T, N_B, T_INT, <<>>, <<>>),
            Row(N_T, N_C, <<"v","a","r","c","h","a","r","(","5",")">>, <<>>,
                FdCell(<<N_B>>, <<N_C>>)),
            Row(N_U, N_A, T_INT, PK, <<>>)>>),
      \* a valid structure of T alone
      Csv(AllHeaders,
          <<Row(N_T, N_A, T_INT, PK, <<>>), Row(N_T, N_B, T_INT, <<>>, <<>>)>>),
      \* the attribute P1 declared twice
      Csv(AllHeaders,
          <<Row(N_T, N_A, T_INT, PK, <<>>), Row(N_T, N_P1, T_INT, <<>>, <<>>),
            Row(N_T, N_P1, T_INT, <<>>, <<>>)>>),
      \* an unknown type
      Csv(AllHeaders,
          <<Row(N_T, N_A, T_INT, PK, <<>>), Row(N_T, N_B, <<"F","O","O">>, <<>>, <<>>)>>),
      \* a dependency without '->'
      Csv(AllHeaders,
          <<Row(N_T, N_A, T_INT, PK, <<>>), Row(N_T, N_B, T_INT, <<>>, N_C),
            Row(N_T, N_C, T_INT, <<>>, <<>>)>>),
      \* no column 'llave'
      Csv(<<H_tabla, H_atributo, H_tipo>>,
          <<Row(N_T, N_A, T_INT, <<>>, <<>>), Row(N_T, N_B, T_INT, <<>>, <<>>)>>),
      \* headers and no row
      Csv(AllHeaders, <<>>) }

\* the tables of the server: dbo.T(A, B, C) with the key A
AppTables ==
    [x \in {N_T} |->
        Conn(<<N_A, N_B, N_C>>, <<N_A>>, <<>>,
             << [c \in {N_A, N_B, N_C} |-> IF c = N_A THEN V1 ELSE <<"x">>],
                [c \in {N_A, N_B, N_C} |-> IF c = N_A THEN V2 ELSE <<"x">>] >>)]

\* head_errors + row_errors of upload
upload_errors(file) ==
    validate_headers(normalize_headers(file.headers))
    \o validate_rows(file.rows, REQUIRE_FK_TARGET_IN_CSV)

InitApp ==
    /\ pc = "idle"
    /\ session = [estructura_rows_json |-> <<>>, conn_str |-> NONE, conn_saved |-> <<>>]
    /\ conns = <<>>
    /\ log = [requests |-> 0, calls |-> <<>>, tested |-> {}]
    /\ db = AppTables
    /\ cfg = ANALYSIS_CFG
    /\ arg = <<>>
    /\ ret = [page |-> "none"]
    /\ estructura_rows = <<>> /\ queries = <<>> /\ sample = <<>> /\ analysis_result = <<>>
    /\ plan = <<>> /\ sql = <<>> /\ norm = <<>>

\* a request arrives: no other is being served
Request ==
    /\ pc = "idle"
    /\ log.requests < MaxRequests

counted == [log EXCEPT !.requests = @ + 1]

Respond(response) ==
    /\ pc' = "idle"
    /\ ret' = response
    /\ arg' = <<>>

appstatic == <<estructura_rows, db, cfg, queries, sample, norm>>

\* POST /upload with a .csv file that has headers
Upload ==
    /\ Request
    /\ \E file \in Uploads :
          /\ file.headers # <<>>
          /\ session' = [session EXCEPT !.estructura_rows_json = <<file>>]
          /\ Respond([page |-> "resultado", ok |-> upload_errors(file) = <<>>,
                      errors |-> upload_errors(file)])
    /\ log' = counted
    /\ UNCHANGED <<appstatic, conns, analysis_result, plan, sql>>

\* the default of request.form.get("driver", ...)
DEFAULT_DRIVER == <<"{ODBC Driver 17 for SQL Server}">>

\* the fields of the form of POST /conectar_sql, as they are sent
Form(server, database, auth_mode, uid, pwd) ==
    [server |-> server, database |-> database, auth_mode |-> auth_mode,
     uid |-> uid, pwd |-> pwd]

Forms ==
    { Form(server, database, auth_mode, uid, pwd) :
         server \in {<<>>, <<" ">>, <<"s">>, <<"s", " ">>},
         database \in {<<>>, <<"d">>},
         auth_mode \in {"windows", "sql"},
         uid \in {<<>>, <<"u">>},
         pwd \in {<<>>, <<" ">>, <<"p">>} }

\* sql_access.build_conn_str
build_conn_str(server, database, auth_mode, uid, pwd, driver) ==
    IF auth_mode = "windows"
    THEN <<"DRIVER=">> \o driver \o <<";SERVER=">> \o server \o <<";DATABASE=">>
         \o database \o <<";Trusted_Connection=yes;">>
    ELSE <<"DRIVER=">> \o driver \o <<";SERVER=">> \o server \o <<";DATABASE=">>
         \o database \o <<";UID=">> \o uid \o <<";PWD=">> \o pwd \o <<";">>

\* `not server or not database` of conectar_sql
missing_fields(form) == strip(form.server) = <<>> \/ strip(form.database) = <<>>

\* `auth_mode == "sql" and (not uid or not pwd)` of conectar_sql
missing_login(form) ==
    form.auth_mode = "sql" /\ (strip(form.uid) = <<>> \/ strip(form.pwd) = <<>>)

\* the conn_str that conectar_sql builds from a form
conn_str_of(form) ==
    build_conn_str(strip(form.server), strip(form.database), form.auth_mode,
                   strip(form.uid), strip(form.pwd), DEFAULT_DRIVER)

\* the session["conn_saved"] that conectar_sql builds from a form
conn_saved_of(form) ==
    [server |-> strip(form.server), database |-> strip(form.database),
     auth_mode |-> form.auth_mode, driver |-> DEFAULT_DRIVER,
     uid |-> IF form.auth_mode = "sql" THEN strip(form.uid) ELSE <<>>]

Flashed(to, category) == [page |-> "redirect", to |-> to, flash |-> category]

\* a conectar_sql that writes the session before it tests the connection
conectar_sql_untested(s, form, connected) ==
    IF missing_fields(form) \/ missing_login(form)
    THEN [session |-> s, response |-> Flashed("conectar_sql", "error")]
    ELSE [session |-> [s EXCEPT !.conn_str = conn_str_of(form),
                                !.conn_saved = <<conn_saved_of(form)>>],
          response |-> IF connected THEN Flashed("tablas", "success")
                       ELSE Flashed("conectar_sql", "error")]

\* the POST branch of conectar_sql on the session s: the session it leaves
\* and its response, test_connection returning (connected) or raising
conectar_sql(s, form, connected) ==
    IF missing_fields(form) \/ missing_login(form)
    THEN [session |-> s, response |-> Flashed("conectar_sql", "error")]
    ELSE IF ~connected
    THEN [session |-> s, response |-> Flashed("conectar_sql", "error")]
    ELSE [session |-> [s EXCEPT !.conn_str = conn_str_of(form),
                                !.conn_saved = <<conn_saved_of(form)>>],
          response |-> Flashed("tablas", "success")]

\* POST /conectar_sql: test_connection succeeds or raises; log.tested keeps
\* the connection strings for which test_connection returned
ConectarSql ==
    /\ Request
    /\ \E form \in Forms, connected \in BOOLEAN :
          /\ session' = conectar_sql(session, form, connected).session
          /\ Respond(conectar_sql(session, form, connected).response)
          /\ log' = [counted EXCEPT !.tested =
                        IF ~missing_fields(form) /\ ~missing_login(form) /\ connected
                        THEN @ \cup {conn_str_of(form)} ELSE @]
    /\ UNCHANGED <<appstatic, conns, analysis_result, plan, sql>>

\* session.get("estructura_rows_json"): <<>> when absent, else the stored
\* structure
raw_estructura == session.estructura_rows_json

\* get_estructura_from_session() when something is stored
get_estructura_from_session == raw_estructura[1]

\* `not rows` of a handler
no_rows(raw) == raw = <<>> \/ raw[1].rows = <<>>

Redirect(to) ==
    /\ Respond([page |-> "redirect", to |-> to])
    /\ UNCHANGED <<conns, analysis_result, plan, sql, session>>

\* the state of a handler that enters `with get_db_connection()`
Handler(name, phase, csv_table, table, pairs, resultados) ==
    [handler |-> name, phase |-> phase, csv_table |-> csv_table, table |-> table,
     pairs |-> pairs, resultados |-> resultados, exc |-> "none"]

EnterWith(h) ==
    /\ pc' = "connect"
    /\ arg' = h
    /\ UNCHANGED <<ret, conns, analysis_result, plan, sql, session>>

\* GET /analizar_tabla?csv_table=T&table=T
AnalizarTabla ==
    /\ Request
    /\ log' = counted
    /\ IF no_rows(raw_estructura) THEN Redirect("index")
       ELSE EnterWith(Handler("analizar_tabla", "analysis", N_T, N_T, <<>>, <<>>))
    /\ UNCHANGED appstatic

\* GET /generar_scripts?csv_table=T&table=T
GenerarScripts ==
    /\ Request
    /\ log' = counted
    /\ IF no_rows(raw_estructura) THEN Redirect("index")
       ELSE IF session.conn_str = NONE THEN Redirect("conectar_sql")
       ELSE EnterWith(Handler("generar_scripts", "analysis", N_T, N_T, <<>>, <<>>))
    /\ UNCHANGED appstatic

\* GET /analizar_todo
AnalizarTodo ==
    /\ Request
    /\ log' = counted
    /\ IF no_rows(raw_estructura) THEN Redirect("index")
       ELSE LET rows == get_estructura_from_session IN
       IF estructura_por_tabla(rows.rows).raised THEN Redirect("index")
       ELSE EnterWith(Handler("analizar_todo", "listing", <<>>, <<>>,
                              sorted(DOMAIN estructura_por_tabla(rows.rows).attrs), <<>>))
    /\ UNCHANGED appstatic

\* get_db_connection up to its yield: RuntimeError without a connection
\* string, else pyodbc.connect returns a connection or raises; when it
\* raises conn is None, so that neither rollback nor close is called
Connect ==
    /\ pc = "connect"
    /\ \E connected \in BOOLEAN :
          IF session.conn_str = NONE
          THEN /\ pc' = "except" /\ arg' = [arg EXCEPT !.exc = "RuntimeError"]
               /\ UNCHANGED conns
          ELSE IF connected
          THEN /\ pc' = "body" /\ conns' = Append(conns, "open")
               /\ UNCHANGED arg
          ELSE /\ pc' = "except" /\ arg' = [arg EXCEPT !.exc = "pyodbc.Error"]
               /\ UNCHANGED conns
    /\ UNCHANGED <<appstatic, session, log, ret, analysis_result, plan, sql>>

\* the body of the with block of /analizar_todo that lists the tables
ListTables ==
    /\ pc = "body" /\ arg.phase = "listing"
    /\ \E fails \in BOOLEAN :
          IF fails
          THEN /\ pc' = "rollback" /\ arg' = [arg EXCEPT !.exc = "pyodbc.Error"]
          ELSE /\ pc' = "finally" /\ UNCHANGED arg
    /\ UNCHANGED <<appstatic, session, log, ret, conns, analysis_result, plan, sql>>

\* the body of a with block that calls AZ.analyze_table(conn, schema, table,
\* csv_name, rows, ANALYSIS_CFG): it returns, a query raises pyodbc.Error,
\* or estructura_por_tabla raises ValueError
Analyze ==
    /\ pc = "body" /\ arg.phase = "analysis"
    /\ LET rows == get_estructura_from_session
           conn == db[arg.table]
       IN /\ log' = [log EXCEPT !.calls =
                        Append(@, [fn |-> "analyze_table", rows |-> rows,
                                   conn_str |-> session.conn_str])]
          /\ IF estructura_por_tabla(rows.rows).raised
             THEN /\ pc' = "finally" /\ arg' = [arg EXCEPT !.exc = "ValueError"]
                  /\ UNCHANGED analysis_result
             ELSE \E fails \in BOOLEAN :
                     IF fails
                     THEN /\ pc' = "rollback" /\ arg' = [arg EXCEPT !.exc = "pyodbc.Error"]
                          /\ UNCHANGED analysis_result
                     ELSE /\ pc' = "finally" /\ UNCHANGED arg
                          /\ LET attrs == get(estructura_por_tabla(rows.rows).attrs,
                                              arg.csv_table, <<>>)
                                 cols_to_check == cols_to_check_of(attrs, get_columns(conn))
                             IN \E smp \in IF cols_to_check # <<>>
                                           THEN fetch_sample_rows(conn, cols_to_check,
                                                                  cfg.sample_rows)
                                           ELSE {<<>>} :
                                   analysis_result' =
                                       analyze_table(conn, N_dbo, arg.table, arg.csv_table,
                                                     rows.rows, cfg, smp)
    /\ UNCHANGED <<appstatic, session, ret, conns, plan, sql>>

\* except pyodbc.Error: conn.rollback() returns or raises, and the
\* exception goes on
Rollback ==
    /\ pc = "rollback"
    /\ \E fails \in BOOLEAN :
          arg' = [arg EXCEPT !.exc = IF fails THEN "rollback failed" ELSE @]
    /\ pc' = "finally"
    /\ UNCHANGED <<appstatic, session, log, ret, conns, analysis_result, plan, sql>>

\* a get_db_connection that closes at the end of its try and of its except
\* blocks, without a finally
release_without_finally(cs, exc) ==
    IF exc = "rollback failed" THEN cs ELSE [cs EXCEPT ![Len(cs)] = "closed"]

\* finally: if conn: conn.close()
release(cs, exc) == [cs EXCEPT ![Len(cs)] = "closed"]

Close ==
    /\ pc = "finally"
    /\ conns' = release(conns, arg.exc)
    /\ pc' = IF arg.exc = "none" THEN "after" ELSE "except"
    /\ UNCHANGED <<appstatic, session, log, ret, arg, analysis_result, plan, sql>>

\* the (t, sql_pair) of /analizar_todo: the table of the server with the
\* name of t in lower case, if any
sql_pair_of(t) ==
    IF \E tb \in DOMAIN db : lower(tb) = lower(t)
    THEN <<N_dbo, CHOOSE tb \in DOMAIN db : lower(tb) = lower(t)>>
    ELSE NONE

\* the summary of a report in /analizar_todo
resultado_of(csv_name, table, res) ==
    [csv |-> csv_name, table |-> table,
     status |-> IF /\ res.one_nf.atomic_issues = <<>> /\ res.one_nf.name_groups = <<>>
                   /\ res.two_nf = <<>> /\ res.three_nf = <<>>
                THEN "ok" ELSE "problemas"]

\* the statements of a handler after its with block
AfterWith ==
    /\ pc = "after"
    /\ CASE arg.handler = "analizar_tabla" ->
               /\ Respond([page |-> "analizar_tabla", result |-> analysis_result])
               /\ UNCHANGED <<log, plan, sql>>
         [] arg.handler = "generar_scripts" ->
               LET rows == get_estructura_from_session
                   p == build_plan(N_dbo, arg.table, arg.csv_table, rows.rows, analysis_result)
               IN /\ log' = [log EXCEPT !.calls =
                                Append(@, [fn |-> "generate_sql", rows |-> rows])]
                  /\ plan' = p
                  /\ sql' = render_sql(N_dbo, arg.table, p)
                  /\ Respond([page |-> "generar_scripts"])
         [] arg.handler = "analizar_todo" /\ arg.phase = "listing" ->
               /\ pc' = "loop"
               /\ arg' = [arg EXCEPT !.phase = "analysis"]
               /\ UNCHANGED <<log, plan, sql, ret>>
         [] arg.handler = "analizar_todo" /\ arg.phase = "analysis" ->
               /\ pc' = "loop"
               /\ arg' = [arg EXCEPT !.resultados =
                             Append(@, resultado_of(arg.csv_table, arg.table, analysis_result))]
               /\ UNCHANGED <<log, plan, sql, ret>>
    /\ UNCHANGED <<appstatic, session, conns, analysis_result>>

\* the except clause of the handler around its with block
HandlerExcept ==
    /\ pc = "except"
    /\ IF arg.handler = "analizar_todo"
       THEN IF arg.phase = "listing"
            THEN Respond([page |-> "redirect", to |-> "index", error |-> arg.exc])
            ELSE /\ pc' = "loop"
                 /\ arg' = [arg EXCEPT !.exc = "none", !.resultados =
                               Append(@, [csv |-> arg.csv_table, table |-> arg.table,
                                          status |-> "error", error |-> arg.exc])]
                 /\ UNCHANGED ret
       ELSE Respond([page |-> "redirect", to |-> "analizar", error |-> arg.exc])
    /\ UNCHANGED <<appstatic, session, log, conns, analysis_result, plan, sql>>

\* for csv_name, sql_pair in pairs
Loop ==
    /\ pc = "loop"
    /\ IF arg.pairs = <<>>
       THEN /\ Respond([page |-> "analizar_todo", resultados |-> arg.resultados])
       ELSE LET t == arg.pairs[1] IN
            IF sql_pair_of(t) = NONE
            THEN /\ arg' = [arg EXCEPT !.pairs = Tail(@), !.resultados =
                               Append(@, [csv |-> t, table |-> NONE, status |-> "sin_sql"])]
                 /\ UNCHANGED <<pc, ret>>
            ELSE /\ arg' = [arg EXCEPT !.pairs = Tail(@), !.csv_table = t,
                                       !.table = sql_pair_of(t)[2]]
                 /\ pc' = "connect"
                 /\ UNCHANGED ret
    /\ UNCHANGED <<appstatic, session, log, conns, analysis_result, plan, sql>>

NextApp ==
    \/ Upload \/ ConectarSql \/ AnalizarTabla \/ GenerarScripts \/ AnalizarTodo
    \/ Connect \/ ListTables \/ Analyze \/ Rollback \/ Close
    \/ AfterWith \/ HandlerExcept \/ Loop

SpecApp == InitApp /\ [][NextApp]_vars

\* ------------------------------------------------------------------------
\* Inputs of the checks of the pure functions
\* ------------------------------------------------------------------------

Unused == <<>>

MaxValLen == 3

MaxAttrs == 3

MaxFdRows == 2

StringsUpTo(alphabet, n) == UNION {[1..k -> alphabet] : k \in 0..n}

\* the values whose atomicity is tested
ValueChars == {"a", "b", "-", ",", ";", "/", "|", "[", "]", "{", " "}

AtomInputs == {NULL} \cup StringsUpTo(ValueChars, MaxValLen)

\* declared attribute names: already trimmed by estructura_por_tabla
Phone1 == <<"P","h","o","n","e","1">>

Phone2 == <<"P","h","o","n","e","2">>

Email == <<"E","m","a","i","l">>

RepNames == { <<"P","1">>, <<"p","2">>, <<"P"," ","1">>, <<"P","1","2">>, <<"Q","1">>,
              <<"Q","2">>, <<"P">>, <<"P","1","x">>, <<"1">>, <<"2">>,
              Phone1, Phone2, Email }

\* the validator rejects a table that declares an attribute twice (compared
\* in lower case)
distinct_names(attrs) ==
    \A i, j \in DOMAIN attrs : i # j => lower(attrs[i]) # lower(attrs[j])

RepInputs == {attrs \in UNION {[1..k -> RepNames] : k \in 0..MaxAttrs} : distinct_names(attrs)}

\* rows of a table with columns a, b (determinant) and c (dependent)
FdValues == {NULL, <<"1">>, <<"2">>}

FdCols == {"a", "b", "c"}

FdInputs ==
    [rows : UNION {[1..k -> [FdCols -> FdValues]] : k \in 0..MaxFdRows},
     lhs_cols : {<<"a">>, <<"a", "b">>},
     rhs_col : {"c"},
     ignore_null_rhs : BOOLEAN]

InitPure(inputs) ==
    /\ pc = "call"
    /\ arg \in inputs
    /\ ret = Unused
    /\ estructura_rows = Unused /\ db = Unused /\ cfg = Unused /\ queries = Unused
    /\ sample = Unused /\ analysis_result = Unused /\ plan = Unused /\ sql = Unused
    /\ norm = Unused /\ session = Unused /\ conns = Unused /\ log = Unused

Return(value) ==
    /\ pc = "call"
    /\ ret' = value
    /\ pc' = "done"
    /\ UNCHANGED <<appvars, estructura_rows, db, cfg, queries, sample, analysis_result, plan,
                   sql, norm, arg>>

CallEsValorAtomico == Return(es_valor_atomico(arg))

CallDetectarRepetidos == Return(detectar_repetidos_nombrado(arg))

CallHasFdSql ==
    Return(has_fd_sql([rows |-> arg.rows], arg.lhs_cols, arg.rhs_col, arg.ignore_null_rhs))

InitAtom == InitPure(AtomInputs)

SpecAtom == InitAtom /\ [][CallEsValorAtomico]_vars

InitRep == InitPure(RepInputs)

SpecRep == InitRep /\ [][CallDetectarRepetidos]_vars

InitFd == InitPure(FdInputs)

SpecFd == InitFd /\ [][CallHasFdSql]_vars

\* ------------------------------------------------------------------------
\* estructura_por_tabla on structure rows of at most MaxRows rows: tables
\* T, U and a blank one, attributes A, B and an empty one, a key
\* annotation, and a dependency cell that is empty, well formed (two
\* clauses and an empty one) or malformed
\* ------------------------------------------------------------------------

CELL_GOOD == <<"A","-",">","B",";"," ","B",",","A"," ","-",">"," ","A"," ",";">>

CELL_BAD == <<"C">>

EstRows ==
    {Row(t, a, T_INT, lf[1], lf[2]) :
        t \in {N_T, <<" ">> \o N_U, <<" ">>},
        a \in {N_A, N_B \o <<" ">>, <<>>},
        lf \in {<< <<>>, <<>> >>, << PK \o <<" ">>, <<>> >>, << <<>>, CELL_GOOD >>, << <<>>, CELL_BAD >>}}

RECURSIVE SeqsUpTo(_, _)
SeqsUpTo(S, n) ==
    IF n = 0 THEN {<<>>}
    ELSE LET shorter == SeqsUpTo(S, n - 1)
         IN shorter \cup {Append(q, x) : q \in {r \in shorter : Len(r) = n - 1}, x \in S}

EstInputs == SeqsUpTo(EstRows, MaxRows)

InitEst == InitPure(EstInputs)

CallEstructuraPorTabla == Return(estructura_por_tabla(arg))

SpecEst == InitEst /\ [][CallEstructuraPorTabla]_vars

\* ------------------------------------------------------------------------
\* depends_on on data frames of at most MaxDepRows rows over the columns
\* A, B (determinants) and C (target), a value or NaN in each, and on
\* frames that lack B or C
\* ------------------------------------------------------------------------

MaxDepRows == 3

DepRows(cols) ==
    {[c \in set(cols) |-> IF c = N_A THEN v[1] ELSE IF c = N_B THEN v[2] ELSE v[3]] :
        v \in {NULL, V1, V2} \X {NULL, V1} \X {NULL, V1, V2}}

DepInputs ==
    [df : {[columns |-> <<N_A, N_B, N_C>>, rows |-> rows] :
              rows \in SeqsUpTo(DepRows(<<N_A, N_B, N_C>>), MaxDepRows)},
     determinant_cols : {<<N_A>>, <<N_A, N_B>>},
     target : {N_C}]
    \cup
    [df : UNION {{[columns |-> cols, rows |-> rows] : rows \in SeqsUpTo(DepRows(cols), 2)} :
                    cols \in {<<N_A, N_C>>, <<N_A, N_B>>}},
     determinant_cols : {<<N_A>>, <<N_A, N_B>>},
     target : {N_C}]

InitDep == InitPure(DepInputs)

CallDependsOn == Return(depends_on(arg.df, arg.determinant_cols, arg.target))

SpecDep == InitDep /\ [][CallDependsOn]_vars

\* ------------------------------------------------------------------------
\* normalizar_pipeline on a structure and a data frame: the table
\* T(K, A, B, C) with no key, the key K or the key (K, A), alone or with a
\* second table U(A, C), and the data of at most MaxDataRows rows
\* ------------------------------------------------------------------------

MaxDataRows == 3

T_TEXT == <<"T","E","X","T">>

V12 == <<"1", ",", "2">>

PipeKeys == [i \in 1..MaxDataRows |-> [c \in {N_K} |-> itoa(i)]]

PipeRest == [{N_A} -> {V1, V2}] \X [{N_B} -> {V1}] \X [{N_C} -> {V1, V2, V12}]

PipeRows == {[c \in {N_A, N_B, N_C} |-> IF c = N_A THEN r[1][N_A] ELSE IF c = N_B THEN r[2][N_B] ELSE r[3][N_C]] :
                r \in PipeRest}

PipeStructure(pk) ==
    <<Row(N_T, N_K, T_INT, IF In(N_K, pk) THEN PK ELSE <<>>, <<>>),
      Row(N_T, N_A, T_TEXT, IF In(N_A, pk) THEN PK ELSE <<>>, <<>>),
      Row(N_T, N_B, T_TEXT, <<>>, <<>>),
      Row(N_T, N_C, T_TEXT, <<>>, <<>>)>>

StructureU == <<Row(N_U, N_A, T_TEXT, <<>>, <<>>), Row(N_U, N_C, T_TEXT, <<>>, <<>>)>>

PipeColumns == <<N_K, N_A, N_B, N_C>>

\* the rows marked with the table they belong to in the column __tabla
Marked(df, t) ==
    [columns |-> <<N_tabla_mark>> \o df.columns,
     rows |-> Map(df.rows, LAMBDA r : [c \in {N_tabla_mark} |-> t] @@ r)]

PipeInputs ==
    {[estructura_df |-> PipeStructure(pk), datos_df |-> [columns |-> PipeColumns, rows |-> rows]] :
        pk \in {<<>>, <<N_K>>, <<N_K, N_A>>}, rows \in TablesOver(PipeKeys, PipeRows, MaxDataRows)}
    \cup
    {[estructura_df |-> PipeStructure(pk) \o StructureU,
      datos_df |-> IF t = <<>> THEN [columns |-> PipeColumns, rows |-> rows]
                   ELSE Marked([columns |-> PipeColumns, rows |-> rows], t)] :
        pk \in {<<>>, <<N_K>>}, rows \in TablesOver(PipeKeys, PipeRows, 1), t \in {<<>>, N_T, N_U}}

InitPipe == InitPure(PipeInputs)

\* what normalizar_pipeline returns: the final schema, the tables and the
\* script (the diagram and the description are not modelled)
pipeline_outputs(r) ==
    [schema_final |-> r.schema,
     order |-> r.order,
     tablas_data |-> r.tables,
     sql_script |-> normalizer_generate_sql(r.schema, r.order),
     resumen_acciones |-> r.resumen]

CallNormalizarPipeline ==
    Return(pipeline_outputs(normalizar_pipeline(arg.estructura_df, arg.datos_df)))

SpecPipe == InitPipe /\ [][CallNormalizarPipeline]_vars

\* ------------------------------------------------------------------------
\* C8
\* ------------------------------------------------------------------------

HasSeparator(v) == \E i \in DOMAIN v : v[i] \in {",", ";", "/", "|", "[", "]"}

OpensCollection(v) ==
    \E i \in DOMAIN v : /\ v[i] \in {"{", "["}
                        /\ \A j \in 1..(i - 1) : v[j] = " "

\* C8: es_valor_atomico(v) is false exactly when v is not null and its
\* text holds one of , ; / | [ ] or, leading blanks aside, starts with { or
\* [; "a,b" is not atomic, "a-b" and null are atomic.
C8_Atomic ==
    pc = "done" =>
        /\ (ret = FALSE) <=> (arg # NULL /\ (HasSeparator(arg) \/ OpensCollection(arg)))
        /\ ret \in BOOLEAN
        /\ arg = <<"a", ",", "b">> => ret = FALSE
        /\ arg = <<"a", "-", "b">> => ret = TRUE
        /\ arg = NULL => ret = TRUE

C8_Witness == pc = "done" /\ arg = <<" ", "{", "a">> /\ ret = FALSE

\* ------------------------------------------------------------------------
\* C9
\* ------------------------------------------------------------------------

EndsInDigit(a) == a # <<>> /\ a[Len(a)] \in DIGITS

\* where the run of trailing digits of a starts
SuffixStart(a) ==
    CHOOSE i \in 1..Len(a) : /\ \A j \in i..Len(a) : a[j] \in DIGITS
                             /\ i > 1 => a[i - 1] \notin DIGITS

PrefixKey(a) == lower(strip(SubSeq(a, 1, SuffixStart(a) - 1)))

\* the positions of attrs whose name ends in digits after the prefix k
MembersAt(attrs, k) == {i \in DOMAIN attrs : EndsInDigit(attrs[i]) /\ PrefixKey(attrs[i]) = k}

SharedKeys(attrs) ==
    {k \in {PrefixKey(attrs[i]) : i \in {j \in DOMAIN attrs : EndsInDigit(attrs[j])}} :
        Cardinality(MembersAt(attrs, k)) >= 2}

IsOrderedMembers(attrs, k, members) ==
    /\ Len(members) = Cardinality(MembersAt(attrs, k))
    /\ \E f \in [DOMAIN members -> MembersAt(attrs, k)] :
          /\ \A i, j \in DOMAIN members : i < j => f[i] < f[j]
          /\ \A i \in DOMAIN members : members[i] = attrs[f[i]]

\* C9: detectar_repetidos_nombrado returns exactly one group per lower-cased
\* trimmed prefix shared by at least two attributes ending in digits, its
\* members in declared order and original spelling; nothing else is grouped.
C9_RepeatedGroups ==
    pc = "done" =>
        /\ \A k \in SharedKeys(arg) :
              /\ Cardinality({i \in DOMAIN ret : ret[i][1] = k}) = 1
              /\ \A i \in DOMAIN ret : ret[i][1] = k => IsOrderedMembers(arg, k, ret[i][2])
        /\ \A i \in DOMAIN ret : ret[i][1] \in SharedKeys(arg)
        /\ arg = <<Phone1, Phone2, Email>> =>
              ret = << <<lower(<<"P","h","o","n","e">>), <<Phone1, Phone2>>>> >>
        /\ arg = <<Phone1>> => ret = <<>>

C9_Witness ==
    /\ pc = "done"
    /\ arg = << <<"P","1">>, <<"Q","1">>, <<"p","2">> >>
    /\ ret = << <<<<"p">>, << <<"P","1">>, <<"p","2">> >> >> >>

\* ------------------------------------------------------------------------
\* C7
\* ------------------------------------------------------------------------

\* the oracle as specified: rows with a null determinant are left out, a
\* null dependent is left out (ignore_null_rhs) or counts as one value
RefHolds(rows, lhs_cols, rhs_col, ignore_null_rhs) ==
    LET eligible == {i \in DOMAIN rows :
                        /\ \A j \in DOMAIN lhs_cols : rows[i][lhs_cols[j]] # NULL
                        /\ ignore_null_rhs => rows[i][rhs_col] # NULL}
    IN \A i, j \in eligible :
          project(rows[i], lhs_cols) = project(rows[j], lhs_cols)
             => rows[i][rhs_col] = rows[j][rhs_col]

\* C7: has_fd_sql answers as the specified oracle on every row set.
C7_OracleAsSpecified ==
    pc = "done" => ret = RefHolds(arg.rows, arg.lhs_cols, arg.rhs_col, arg.ignore_null_rhs)

\* ------------------------------------------------------------------------
\* Properties of the analyser
\* ------------------------------------------------------------------------

Analyzed == pc \in {"analyzed", "generated"}

Generated == pc = "generated"

\* the declared dependencies of the analysed table, as (lhs, rhs) lists
DeclaredFds == get(estructura_por_tabla(estructura_rows).fds, arg.tabla_csv, <<>>)

\* declared and in the physical catalog
Scanned(c) == In(c, declared_attrs) /\ In(c, db.cols_sql)

Prime(c) == In(c, db.pk_cols) \/ \E i \in DOMAIN db.unique_sets : In(c, db.unique_sets[i])

\* the oracle queried the way the 2NF check queries it
OracleHolds(lhs, c) == has_fd_sql(db, lhs, c, ~cfg.fd_check_nulls)

NewTables == Range(plan.new_tables)

ColumnsOf(nt) == {nt.cols[i][1] : i \in DOMAIN nt.cols}

OrdersCase ==
    /\ arg.table = N_Orders
    /\ db.pk_cols = <<N_OrderId, N_ProductId>>
    /\ Scanned(N_Discount)
    /\ OracleHolds(<<N_ProductId>>, N_Discount)

Reports2NF(subset, attr) ==
    \E i \in DOMAIN analysis_result.two_nf :
        analysis_result.two_nf[i].subset = subset /\ analysis_result.two_nf[i].attr = attr

PlansDeterminantTable(name) ==
    /\ \E nt \in NewTables :
          /\ nt.name = name
          /\ nt.pk = <<N_ProductId>>
          /\ N_Discount \in ColumnsOf(nt)
    /\ In(N_Discount, plan.drop_candidates)

\* C1 as stated: in the Orders scenario the violation {[ProductId],
\* Discount} is reported and the planner emits the table
\* Orders_ProductId_det, keyed by ProductId and holding Discount, Discount
\* being a drop candidate.
C1_OrdersDet ==
    (Generated /\ OrdersCase) =>
        /\ Reports2NF(<<N_ProductId>>, N_Discount)
        /\ PlansDeterminantTable(<<"O","r","d","e","r","s","_","P","r","o","d","u","c","t","I","d","_","d","e","t">>)

\* C1, with the name the planner gives: for Orders keyed by (OrderId,
\* ProductId) with a declared, present non-key Discount that the oracle
\* finds determined by [ProductId], the analysis reports the 2NF violation
\* (subset [ProductId], attr Discount) and the plan has a new table named
\* Orders_ProductId_info, keyed by [ProductId], containing Discount, with
\* Discount among the drop candidates.
C1_OrdersInfo ==
    (Generated /\ OrdersCase) =>
        /\ Reports2NF(<<N_ProductId>>, N_Discount)
        /\ PlansDeterminantTable(<<"O","r","d","e","r","s","_","P","r","o","d","u","c","t","I","d","_","i","n","f","o">>)

C1_Witness ==
    /\ Generated /\ OrdersCase
    /\ Len(db.rows) = 2
    /\ ~OracleHolds(<<N_OrderId>>, N_Discount)
    /\ Len(plan.new_tables) = 1

\* ------------------------------------------------------------------------
\* C3
\* ------------------------------------------------------------------------

ChainsOf(reason) ==
    {analysis_result.three_nf[i].chain :
        i \in {j \in DOMAIN analysis_result.three_nf : analysis_result.three_nf[j].reason = reason}}

SameColumns(a, b) == Range(a) = Range(b)

Superkey(lhs) ==
    \/ SameColumns(lhs, db.pk_cols)
    \/ \E i \in DOMAIN db.unique_sets : SameColumns(lhs, db.unique_sets[i])

DeclaredChain(lhs, y) == join(<<"+">>, lhs) \o <<" ", "-", ">", " ">> \o y

\* C3: the 3NF-declared chains reported are exactly lhs -> y for the declared
\* dependencies (lhs, rhs) whose lhs is, as a set, neither the primary key
\* nor a unique set, and y in rhs not prime; lhs equal to the key in any
\* column order gives no violation.
C3_DeclaredViolations ==
    Analyzed =>
        LET fds == DeclaredFds
            reported == ChainsOf(REASON_DECL)
        IN /\ reported =
                 {DeclaredChain(fds[ik[1]][1], fds[ik[1]][2][ik[2]]) :
                     ik \in {jk \in (DOMAIN fds) \X (1..Len(declared_attrs)) :
                                /\ jk[2] \in DOMAIN fds[jk[1]][2]
                                /\ ~Superkey(fds[jk[1]][1])
                                /\ ~Prime(fds[jk[1]][2][jk[2]])}}
           /\ \A i \in DOMAIN fds :
                 SameColumns(fds[i][1], db.pk_cols) =>
                    \A y \in Range(fds[i][2]) : DeclaredChain(fds[i][1], y) \notin reported

C3_Witness ==
    /\ Analyzed
    /\ db.pk_cols = <<N_A, N_B>>
    /\ DeclaredFds = << <<<<N_B>>, <<N_D>>>>, <<<<N_A, N_B>>, <<N_D>>>> >>
    /\ ChainsOf(REASON_DECL) = {DeclaredChain(<<N_B>>, N_D)}

C3_WitnessReordered ==
    /\ Analyzed
    /\ db.pk_cols = <<N_A, N_B>>
    /\ DeclaredFds = << <<<<N_B, N_A>>, <<N_D>>>> >>
    /\ analysis_result.three_nf = <<>>

\* ------------------------------------------------------------------------
\* C2
\* ------------------------------------------------------------------------

\* the declared dependency lhs -> y is reported as a 3NF-declared violation
ReportedDeclared(lhs, y) == DeclaredChain(lhs, y) \in ChainsOf(REASON_DECL)

Lines == Range(lines_of(sql))

QualifiedName(name) == quote_ident(arg.schema) \o <<".">> \o quote_ident(name)

EmitsCreate(nt) == (<<"  ", "CREATE TABLE", " ">> \o QualifiedName(nt.name) \o <<" (">>) \in Lines

\* ALTER TABLE original ADD CONSTRAINT ... FOREIGN KEY (lhs) REFERENCES new
EmitsForeignKey(nt, lhs) ==
    \E i \in DOMAIN lines_of(sql) :
        /\ i + 2 \in DOMAIN lines_of(sql)
        /\ lines_of(sql)[i] = <<"  ", "ALTER TABLE", " ">> \o QualifiedName(arg.table)
        /\ startswith(lines_of(sql)[i + 1], <<"  ADD CONSTRAINT ">>)
        /\ contains(lines_of(sql)[i + 1], <<" FOREIGN KEY (">> \o quoted_list(lhs) \o <<")">>)
        /\ startswith(lines_of(sql)[i + 2], <<"      REFERENCES ">> \o QualifiedName(nt.name))

DimensionFor(nt, lhs, y) ==
    /\ nt.pk = lhs
    /\ y \in ColumnsOf(nt)
    /\ nt.fk_from_original =
          <<[from_table |-> arg.table, from_cols |-> lhs, to_table |-> nt.name, to_cols |-> lhs]>>
    /\ EmitsCreate(nt)
    /\ EmitsForeignKey(nt, lhs)

\* C2: every declared dependency lhs -> y reported as a 3NF-declared
\* violation gets a new table keyed by lhs that holds y, a foreign key of
\* the original table on lhs to it, and in the script its CREATE TABLE and
\* the ALTER TABLE ... ADD CONSTRAINT ... FOREIGN KEY referencing it.
C2_DeclaredDimension ==
    Generated =>
        \A i \in DOMAIN DeclaredFds : \A y \in Range(DeclaredFds[i][2]) :
            ReportedDeclared(DeclaredFds[i][1], y) =>
                \E nt \in NewTables : DimensionFor(nt, DeclaredFds[i][1], y)

\* the ZipCode -> City case, where the claim does hold
C2_ZipCodeCity ==
    /\ Generated
    /\ DeclaredFds = << <<<<N_ZipCode>>, <<N_City>>>> >>
    /\ \E nt \in NewTables : DimensionFor(nt, <<N_ZipCode>>, N_City)

\* ------------------------------------------------------------------------
\* C4
\* ------------------------------------------------------------------------

AllDistinct(a) == \A i, j \in DOMAIN db.rows : i # j => db.rows[i][a] # db.rows[j][a]

InferredChain(a, b) ==
    join(<<"+">>, db.pk_cols) \o <<" ", "-", ">", " ">> \o a \o <<" ", "-", ">", " ">> \o b

\* C4: the inferred chains reported are exactly PK -> a -> b for distinct
\* non-prime attributes a, b that are declared and in the catalog, when
\* inference is enabled, a is not unique over the rows and the oracle holds
\* for [a] -> b; a column of all distinct values is never the middle.
C4_InferredChains ==
    Analyzed =>
        LET candidates == {c \in Range(declared_attrs) : In(c, db.cols_sql) /\ ~Prime(c)}
            reported == ChainsOf(REASON_INFER)
        IN /\ reported =
                 {InferredChain(ab[1], ab[2]) :
                     ab \in {xy \in candidates \X candidates :
                                /\ cfg.infer_singlecol_fds
                                /\ xy[1] # xy[2]
                                /\ ~AllDistinct(xy[1])
                                /\ has_fd_sql(db, <<xy[1]>>, xy[2], TRUE)}}
           /\ \A a \in candidates : \A b \in Range(declared_attrs) :
                 AllDistinct(a) => InferredChain(a, b) \notin reported

C4_Witness ==
    /\ Analyzed
    /\ arg.table = N_Customers
    /\ \A i \in DOMAIN db.rows : db.rows[i][N_ZipCode] = <<"x">>
    /\ AllDistinct(N_City)
    /\ Len(db.rows) = 2
    /\ ChainsOf(REASON_INFER) = {}
    /\ has_fd_sql(db, <<N_City>>, N_ZipCode, TRUE)

C4_WitnessChain ==
    /\ Analyzed
    /\ arg.table = N_Customers
    /\ ChainsOf(REASON_INFER) = {InferredChain(N_ZipCode, N_City)}

\* ------------------------------------------------------------------------
\* C5
\* ------------------------------------------------------------------------

\* the columns of S in primary-key order
InKeyOrder(S) == Filter(db.pk_cols, LAMBDA c : c \in S)

Reported2NF ==
    {<<Range(analysis_result.two_nf[i].subset), analysis_result.two_nf[i].attr>> :
        i \in DOMAIN analysis_result.two_nf}

\* C5: with a key of k >= 2 columns the 2NF violations are exactly the pairs
\* (S, c), S a non-empty proper subset of the key, c declared, in the
\* catalog and outside the key, for which the oracle holds; each once.
C5_PartialDependencies ==
    (Analyzed /\ Len(db.pk_cols) >= 2) =>
        /\ Reported2NF =
              {Sc \in ((SUBSET Range(db.pk_cols)) \ {{}, Range(db.pk_cols)})
                        \X Range(declared_attrs) :
                  /\ Scanned(Sc[2])
                  /\ ~In(Sc[2], db.pk_cols)
                  /\ OracleHolds(InKeyOrder(Sc[1]), Sc[2])}
        /\ Len(analysis_result.two_nf) = Cardinality(Reported2NF)
        /\ \A i \in DOMAIN analysis_result.two_nf :
              analysis_result.two_nf[i].subset = InKeyOrder(Range(analysis_result.two_nf[i].subset))

C5_Witness ==
    /\ Analyzed
    /\ db.pk_cols = <<N_A, N_B, N_C>>
    /\ Len(db.rows) = 2
    /\ Reported2NF = {<<{N_A}, N_D>>, <<{N_C}, N_D>>, <<{N_A, N_B}, N_D>>,
                      <<{N_A, N_C}, N_D>>, <<{N_B, N_C}, N_D>>}

\* ------------------------------------------------------------------------
\* C6
\* ------------------------------------------------------------------------

\* C6: with a key of fewer than two columns the analysis sends no oracle
\* query for partial dependencies and reports no 2NF violation, the plan
\* has no table of source 2NF, and normalize_2NF returns schema and data
\* as they were, with nothing created.
C6_SingleKeyNoOp ==
    /\ (Analyzed /\ Len(db.pk_cols) < 2) =>
          /\ \A i \in DOMAIN queries : queries[i].check # "2NF"
          /\ analysis_result.two_nf = <<>>
    /\ (Generated /\ Len(db.pk_cols) < 2) =>
          \A nt \in NewTables : nt.source # <<"2NF">>
    /\ (pc = "normalized" /\ Len(norm.input.schema[arg.tabla_csv].pk) < 2) =>
          /\ norm.output.schema = norm.input.schema
          /\ norm.output.tables_data = norm.input.tables_data
          /\ norm.output.created = <<>>

C6_Witness ==
    /\ Generated
    /\ Len(db.pk_cols) = 1
    /\ Len(db.rows) = 2
    /\ Len(queries) > 4
    /\ plan.new_tables # <<>>

C6_WitnessNormalized ==
    /\ pc = "normalized"
    /\ Len(norm.input.schema[arg.tabla_csv].pk) = 1
    /\ Len(db.rows) = 2

\* ------------------------------------------------------------------------
\* C10
\* ------------------------------------------------------------------------

NonAtomic(v) == v # NULL /\ (HasSeparator(v) \/ OpensCollection(v))

\* the places, in sample order, of the non-atomic values of the column
\* sampled at place p
Offending(p) == {k \in DOMAIN sample : NonAtomic(sample[k][p])}

FirstOffending(p) == sample[CHOOSE k \in Offending(p) : \A m \in Offending(p) : k <= m][p]

\* the issues expected of the scanned attributes, given in declared order
ExpectedIssues(scanned) ==
    LET places == Filter([i \in DOMAIN scanned |-> i], LAMBDA p : Offending(p) # {})
    IN [i \in DOMAIN places |-> <<scanned[places[i]], FirstOffending(places[i])>>]

C11_SameReport == pc = "analyzed_twice" => ret.report = analysis_result

\* ------------------------------------------------------------------------
\* C12
\* ------------------------------------------------------------------------

AllQueries == queries_of(db, arg.tabla_csv, estructura_rows, cfg)

\* C12: when a query of analyze_table fails the failure reaches the caller:
\* the queries issued are those up to the failing one, each once, none
\* after it, and no report is returned.
C12_FailurePropagates ==
    pc = "raised" =>
        /\ ret.fail_at \in DOMAIN AllQueries
        /\ queries = Take(AllQueries, ret.fail_at)
        /\ analysis_result = <<>>

\* the first 2NF oracle query fails, after the catalog and the sample
C12_Witness ==
    /\ pc = "raised"
    /\ Len(queries) = 5
    /\ queries[5].check = "2NF"
    /\ Len(AllQueries) > 5
    /\ sample = <<>>

\* ------------------------------------------------------------------------
\* C13
\* ------------------------------------------------------------------------

Released == \A i \in DOMAIN conns : conns[i] = "closed"

\* the handler is outside its with block
OutsideWith == pc \in {"idle", "connect", "after", "except", "loop"}

\* C13: every connection opened by get_db_connection for an analysis is
\* closed once the with block of the request is left, whether the block
\* succeeded, a query or analyze_table failed, or the rollback failed; and
\* inside the block only the connection of the block is open.
C13_ConnectionsClosed ==
    /\ OutsideWith => Released
    /\ ~OutsideWith => /\ conns # <<>>
                       /\ \A i \in DOMAIN conns : conns[i] = "open" => i = Len(conns)

C13_Witness ==
    /\ pc = "idle"
    /\ "error" \in DOMAIN ret
    /\ ret.error = "rollback failed"
    /\ conns # <<>>
    /\ Released

\* ------------------------------------------------------------------------
\* C14
\* ------------------------------------------------------------------------

\* C14: analyze_table and generate_sql are only invoked with structure rows
\* for which validate_headers and validate_rows reported no error.
C14_OnlyValidatedRows ==
    \A i \in DOMAIN log.calls : upload_errors(log.calls[i].rows) = <<>>

\* ------------------------------------------------------------------------
\* C15
\* ------------------------------------------------------------------------

\* the new tables of one kind, by their place in the plan
TablesOf(source) == {i \in DOMAIN plan.new_tables : plan.new_tables[i].source = source}

NoColumnTwice(nt) == \A i, j \in DOMAIN nt.cols : nt.cols[i][1] = nt.cols[j][1] => i = j

\* deps maps every determinant of the kind to the set of its dependents:
\* one table per determinant, keyed by it, its other columns being the
\* dependents
OneTablePerDeterminant(source, deps) ==
    /\ \A d \in DOMAIN deps :
          Cardinality({i \in TablesOf(source) : plan.new_tables[i].pk = d}) = 1
    /\ \A i \in TablesOf(source) :
          LET nt == plan.new_tables[i]
              names == names_of(nt.cols)
          IN /\ nt.pk \in DOMAIN deps
             /\ Len(names) >= Len(nt.pk)
             /\ Take(names, Len(nt.pk)) = nt.pk
             /\ Range(Drop(names, Len(nt.pk))) = deps[nt.pk]
             /\ NoColumnTwice(nt)

Dependents2NF ==
    [d \in {analysis_result.two_nf[i].subset : i \in DOMAIN analysis_result.two_nf} |->
        {analysis_result.two_nf[i].attr :
            i \in {j \in DOMAIN analysis_result.two_nf : analysis_result.two_nf[j].subset = d}}]

DependentsDeclared ==
    LET fds == DeclaredFds
        violating(i) == {y \in Range(fds[i][2]) : ReportedDeclared(fds[i][1], y)}
    IN [d \in {fds[i][1] : i \in {j \in DOMAIN fds : violating(j) # {}}} |->
           UNION {violating(i) : i \in {j \in DOMAIN fds : fds[j][1] = d}}]

DependentsInferred ==
    LET cols == {c \in Range(declared_attrs) : In(c, db.cols_sql)}
        deps(a) == {b \in cols : InferredChain(a, b) \in ChainsOf(REASON_INFER)}
    IN [d \in {<<a>> : a \in {c \in cols : deps(c) # {}}} |-> deps(d[1])]

\* C15: for the 2NF, 3NF-declared and 3NF-inferred violations of the report
\* the plan has exactly one new table per distinct determinant of the kind
\* (PK subset, declared LHS, inferred determinant column), keyed by the
\* determinant, whose other columns are exactly the attributes reported
\* dependent on it, no column appearing twice.
C15_OneTablePerDeterminant ==
    Generated =>
        /\ OneTablePerDeterminant(<<"2NF">>, Dependents2NF)
        /\ OneTablePerDeterminant(<<"3FN-decl">>, DependentsDeclared)
        /\ OneTablePerDeterminant(<<"3FN-infer">>, DependentsInferred)

\* the 2NF and 3NF-inferred parts, which hold
C15_Held ==
    Generated =>
        /\ OneTablePerDeterminant(<<"2NF">>, Dependents2NF)
        /\ OneTablePerDeterminant(<<"3FN-infer">>, DependentsInferred)

\* ------------------------------------------------------------------------
\* C16
\* ------------------------------------------------------------------------

\* the type the structure declares for the attribute c of the analysed table
DeclaredType(c) ==
    LET i == CHOOSE k \in DOMAIN estructura_rows :
                 /\ strip(estructura_rows[k].tabla) = arg.tabla_csv
                 /\ strip(estructura_rows[k].atributo) = c
    IN strip(estructura_rows[i].tipo)

StrippedPrefix(g) == rstrip_set(g[1], {"_"})

\* nt is the 1NF table of the group g = (prefix, members), valor being the
\* name of its value column
GroupTable(nt, g, valor) ==
    /\ nt.pk = db.pk_cols \o << <<"n">> >>
    /\ names_of(nt.cols) = db.pk_cols \o << <<"n">>, valor >>
    /\ nt.cols[Len(nt.cols)][2] = DeclaredType(g[2][1])
    /\ nt.move_from_original = g[2]
    /\ \A c \in Range(g[2]) : In(c, plan.drop_candidates)

\* one 1NF table per group of the report, value(g) naming its value column
OneTablePerGroup(value(_)) ==
    LET groups == analysis_result.one_nf.name_groups IN
    /\ Cardinality(TablesOf(<<"1NF">>)) = Len(groups)
    /\ \A k \in DOMAIN groups :
          /\ Cardinality({i \in TablesOf(<<"1NF">>) :
                             plan.new_tables[i].move_from_original = groups[k][2]}) = 1
          /\ \A i \in TablesOf(<<"1NF">>) :
                plan.new_tables[i].move_from_original = groups[k][2] =>
                    GroupTable(plan.new_tables[i], groups[k], value(groups[k]))

ValueOrValor(g) == IF StrippedPrefix(g) = <<>> THEN VALOR ELSE StrippedPrefix(g)

\* C16 as stated: one 1NF table per repeated group, keyed by the original
\* key columns and the sequence column n, its only other column being
\* named after the stripped prefix of the group and typed as the first
\* member is declared; the members are moved and are drop candidates.
C16_AsStated == Generated => OneTablePerGroup(StrippedPrefix)

\* C16: as above, the value column being named after the stripped prefix of
\* the group, or 'valor' when nothing is left of the prefix once its
\* trailing underscores are stripped.
C16_RepeatedGroupTables == Generated => OneTablePerGroup(ValueOrValor)

C16_Witness ==
    /\ Generated
    /\ Len(analysis_result.one_nf.name_groups) = 2
    /\ analysis_result.one_nf.name_groups[1][1] = <<"t","e","l","_">>
    /\ analysis_result.one_nf.name_groups[2][1] = <<"_">>
    /\ db.pk_cols = <<N_A>>
    /\ plan.new_tables[1].cols = << <<N_A, INT>>, << <<"n">>, <<"INT">> >>,
                                    << <<"t","e","l">>, NVARCHAR50 >> >>
    /\ names_of(plan.new_tables[2].cols) = <<N_A, <<"n">>, VALOR>>

\* ------------------------------------------------------------------------
\* C17
\* ------------------------------------------------------------------------

\* build_plan has returned a plan
Planned == "drop_candidates" \in DOMAIN plan

MovedColumns == UNION {Range(plan.new_tables[i].move_from_original) : i \in DOMAIN plan.new_tables}

\* C17: in every plan returned by build_plan no column is twice among the
\* drop candidates, and the drop candidates are, as a set, the union of the
\* moved columns of the new tables.
C17_DropCandidates ==
    Planned =>
        /\ \A i, j \in DOMAIN plan.drop_candidates :
              plan.drop_candidates[i] = plan.drop_candidates[j] => i = j
        /\ Range(plan.drop_candidates) = MovedColumns

\* ------------------------------------------------------------------------
\* C18
\* ------------------------------------------------------------------------

IsComment(line) == line # <<>> /\ line[1] = "--"

\* the line is a statement (not a comment) with the keyword
Executes(line, keyword) == ~IsComment(line) /\ keyword \in Range(line)

\* the header lines of the blocks of the new tables, in the script lines ls
HeaderLines(ls) == {i \in DOMAIN ls : startswith(ls[i], <<"--", " ---------- ">>)}

\* the lines of the k-th block: from its header to the next header, or to
\* the end of the script
BlockOf(ls, k) ==
    LET hs == HeaderLines(ls)
        nth(n) == CHOOSE i \in hs : Cardinality({j \in hs : j < i}) = n - 1
    IN SubSeq(ls, nth(k), IF k < Cardinality(hs) THEN nth(k + 1) - 1 ELSE Len(ls))

Sourced(nt) == \A c \in ColumnsOf(nt) : In(c, plan.orig_cols)

\* the block holds the executable INSERT of nt, projecting its columns, and
\* no other
InsertsDistinct(block, nt) ==
    /\ Cardinality({i \in DOMAIN block : Executes(block[i], "INSERT INTO")}) = 1
    /\ Cardinality({i \in DOMAIN block : Executes(block[i], "SELECT DISTINCT")}) = 1
    /\ \E i \in DOMAIN block :
          /\ i + 2 \in DOMAIN block
          /\ block[i] = <<"INSERT INTO", " ">> \o QualifiedName(nt.name) \o <<" (">>
                           \o quoted_list(names_of(nt.cols)) \o <<")">>
          /\ block[i + 1] = <<"SELECT DISTINCT", " ">> \o quoted_list(names_of(nt.cols))
          /\ block[i + 2] = <<"FROM ">> \o QualifiedName(arg.table) \o <<";">>

NoInsert(block) ==
    \A i \in DOMAIN block :
        ~Executes(block[i], "INSERT INTO") /\ ~Executes(block[i], "SELECT DISTINCT")

\* a comment of the block names the columns of nt that are not in orig_cols
NamesMissing(block, nt) ==
    \E i \in DOMAIN block :
        /\ IsComment(block[i])
        /\ block[i] = <<"--", " Columnas no presentes en ">> \o arg.schema \o <<".">> \o arg.table
                         \o <<": ">>
                         \o quoted_list(Filter(names_of(nt.cols),
                                               LAMBDA c : ~In(c, plan.orig_cols)))

CommentedTemplate(block, nt) ==
    \E i \in DOMAIN block : startswith(block[i], <<"--", " ", "INSERT INTO", " ">>
                                                    \o QualifiedName(nt.name))

\* C18: the script has one block per new table of the plan; the block of a
\* 1NF table has a commented INSERT template and no executable INSERT; the
\* block of another table has the executable INSERT ... SELECT DISTINCT of
\* exactly its columns when all of them are in orig_cols, and otherwise no
\* executable INSERT but a comment naming the columns that are missing.
C18_InsertOnlySourced ==
    Generated =>
        LET ls == lines_of(sql) IN
        /\ Cardinality(HeaderLines(ls)) = Len(plan.new_tables)
        /\ \A k \in DOMAIN plan.new_tables :
              LET nt == plan.new_tables[k]
                  block == BlockOf(ls, k)
              IN /\ \E i \in DOMAIN block :
                       block[i] = <<"  ", "CREATE TABLE", " ">> \o QualifiedName(nt.name)
                                     \o <<" (">>
                 /\ IF nt.source = <<"1NF">>
                    THEN NoInsert(block) /\ CommentedTemplate(block, nt)
                    ELSE IF Sourced(nt) THEN InsertsDistinct(block, nt)
                    ELSE NoInsert(block) /\ NamesMissing(block, nt)

C18_Witness ==
    /\ Generated
    /\ Len(plan.new_tables) = 2
    /\ ~Sourced(plan.new_tables[1])
    /\ NamesMissing(BlockOf(lines_of(sql), 1), plan.new_tables[1])
    /\ Sourced(plan.new_tables[2])
    /\ InsertsDistinct(BlockOf(lines_of(sql), 2), plan.new_tables[2])

\* ------------------------------------------------------------------------
\* C19
\* ------------------------------------------------------------------------

\* the lines, by place, that are statements with the keyword
StatementsOf(ls, keyword) == {i \in DOMAIN ls : Executes(ls[i], keyword)}

\* the last line of the script that is not empty
LastLine(ls) == ls[CHOOSE i \in DOMAIN ls : ls[i] # <<>> /\ \A j \in DOMAIN ls : j > i => ls[j] = <<>>]

\* C19: the script has exactly one BEGIN TRAN statement, before every
\* CREATE TABLE, INSERT and ALTER TABLE statement; its last statement is
\* ROLLBACK; COMMIT and DROP COLUMN occur in comment lines only.
C19_RollbackByDefault ==
    Generated =>
        LET ls == lines_of(sql)
            begins == StatementsOf(ls, "BEGIN TRAN")
        IN /\ Cardinality(begins) = 1
           /\ \A b \in begins :
                 \A i \in StatementsOf(ls, "CREATE TABLE") \cup StatementsOf(ls, "INSERT INTO")
                          \cup StatementsOf(ls, "ALTER TABLE") : b < i
           /\ LastLine(ls) = <<"ROLLBACK", ";">>
           /\ StatementsOf(ls, "COMMIT") = {}
           /\ StatementsOf(ls, "DROP COLUMN") = {}
           /\ \E i \in DOMAIN ls : "COMMIT" \in Range(ls[i])

C19_Witness ==
    /\ Generated
    /\ StatementsOf(lines_of(sql), "CREATE TABLE") # {}
    /\ StatementsOf(lines_of(sql), "INSERT INTO") # {}
    /\ StatementsOf(lines_of(sql), "ALTER TABLE") # {}
    /\ \E i \in DOMAIN lines_of(sql) :
          IsComment(lines_of(sql)[i]) /\ "DROP COLUMN" \in Range(lines_of(sql)[i])

\* ------------------------------------------------------------------------
\* C20
\* ------------------------------------------------------------------------

\* the places of the line in the block
PlacesOf(block, line) == {i \in DOMAIN block : block[i] = line}

TableGuard(nt) == <<"IF OBJECT_ID(N'">> \o arg.schema \o <<".">> \o nt.name \o <<"', N'U') IS NULL">>

CreateLine(nt) == <<"  ", "CREATE TABLE", " ">> \o QualifiedName(nt.name) \o <<" (">>

ConstraintGuard(nt) ==
    <<"IF NOT EXISTS (SELECT 1 FROM sys.foreign_keys WHERE name = N'">>
    \o fk_name_of(arg.table, nt.name) \o <<"')">>

\* the places where the block populates the table: its INSERT statement or
\* the comment that stands for it
InsertPlaces(block) ==
    {i \in DOMAIN block :
        \/ Executes(block[i], "INSERT INTO")
        \/ startswith(block[i], <<"--", " No se pudo generar INSERT automatico para ">>)
        \/ startswith(block[i], <<"--", " INSERT en ">>)}

\* the places where the block adds the foreign key of the original table
\* to the new table: ALTER TABLE, ADD CONSTRAINT, REFERENCES
ForeignKeyPlaces(block, nt) ==
    {i \in DOMAIN block :
        /\ i + 2 \in DOMAIN block
        /\ block[i] = <<"  ", "ALTER TABLE", " ">> \o QualifiedName(arg.table)
        /\ startswith(block[i + 1], <<"  ADD CONSTRAINT ">> \o fk_name_of(arg.table, nt.name)
                                       \o <<" FOREIGN KEY (">>)
        /\ startswith(block[i + 2], <<"      REFERENCES ">> \o QualifiedName(nt.name))}

\* exactly one place in each of the sets, the places increasing
InOrder(places) ==
    /\ \A k \in DOMAIN places : Cardinality(places[k]) = 1
    /\ \A k \in DOMAIN places : \A m \in DOMAIN places :
          k < m => \A i \in places[k] : \A j \in places[m] : i < j

\* C20: in the block of every new table the existence check on the table
\* precedes its CREATE TABLE, which precedes its INSERT (or the comment in
\* its place), which precedes, when the plan entry carries a foreign key,
\* the existence check on the constraint name and then the ALTER TABLE ...
\* ADD CONSTRAINT referencing the table; a block whose entry carries no
\* foreign key has no ALTER TABLE statement.
C20_StatementOrder ==
    Generated =>
        LET ls == lines_of(sql) IN
        /\ Cardinality(HeaderLines(ls)) = Len(plan.new_tables)
        /\ \A k \in DOMAIN plan.new_tables :
              LET nt == plan.new_tables[k]
                  block == BlockOf(ls, k)
                  steps == <<PlacesOf(block, TableGuard(nt)), PlacesOf(block, CreateLine(nt)),
                             InsertPlaces(block)>>
              IN /\ Cardinality({i \in DOMAIN block : Executes(block[i], "CREATE TABLE")}) = 1
                 /\ IF nt.fk_from_original # <<>>
                    THEN /\ InOrder(steps \o <<PlacesOf(block, ConstraintGuard(nt)),
                                               ForeignKeyPlaces(block, nt)>>)
                         /\ Cardinality({i \in DOMAIN block :
                                            Executes(block[i], "ALTER TABLE")}) = 1
                    ELSE /\ InOrder(steps)
                         /\ \A i \in DOMAIN block : ~Executes(block[i], "ALTER TABLE")
                         /\ PlacesOf(block, ConstraintGuard(nt)) = {}

C20_Witness ==
    /\ Generated
    /\ Len(plan.new_tables) = 2
    /\ plan.new_tables[1].fk_from_original = <<>>
    /\ plan.new_tables[2].fk_from_original # <<>>
    /\ ForeignKeyPlaces(BlockOf(lines_of(sql), 2), plan.new_tables[2]) # {}

\* ------------------------------------------------------------------------
\* C21  The renderer that writes no transaction is the rebuild-style one:
\* its script snapshots the rows of the original table into a backup
\* (SELECT ... INTO), then drops the original and creates it again, reloads
\* it from the backup with SELECT DISTINCT, creates and fills the new
\* tables, and drops the backup last.  Of the two renderers of the
\* repository, generators.render_sql always opens a transaction and
\* normalizer.generate_sql never does; the claim is stated of the script
\* of the latter.
\* ------------------------------------------------------------------------

Piped == pc = "done" /\ "sql_script" \in DOMAIN ret

StatementPlaces(ls, keyword) == {i \in DOMAIN ls : Executes(ls[i], keyword)}

RebuildOrder(ls) ==
    \E snapshot \in StatementPlaces(ls, "INTO"),
       dropped \in StatementPlaces(ls, "DROP TABLE"),
       created \in StatementPlaces(ls, "CREATE TABLE"),
       reloaded \in StatementPlaces(ls, "SELECT DISTINCT"),
       cleaned \in StatementPlaces(ls, "DROP TABLE") :
        /\ snapshot < dropped /\ dropped < created /\ created < reloaded /\ reloaded < cleaned
        /\ \A i \in StatementPlaces(ls, "CREATE TABLE") \cup StatementPlaces(ls, "SELECT DISTINCT") :
              i < cleaned

C21_RebuildStyle ==
    (Piped /\ ret.order # <<>>) =>
        LET ls == lines_of(ret.sql_script)
        IN /\ StatementPlaces(ls, "BEGIN TRAN") = {}
           /\ RebuildOrder(ls)

\* what the script of normalizer.generate_sql holds instead: one CREATE
\* TABLE per table of the schema and one ALTER TABLE per foreign key, and
\* no statement that reads, writes or drops anything
C21_CreateOnly ==
    Piped =>
        LET ls == lines_of(ret.sql_script)
        IN /\ Cardinality(StatementPlaces(ls, "CREATE TABLE")) = Len(ret.order)
           /\ \A kw \in {"BEGIN TRAN", "INTO", "DROP TABLE", "SELECT DISTINCT", "INSERT INTO"} :
                 StatementPlaces(ls, kw) = {}

\* ------------------------------------------------------------------------
\* C22  estructura_por_tabla skips the rows whose trimmed table or
\* attribute is blank, whatever their dependency cell holds, and - the
\* clauses of the other rows being well formed - returns without raising:
\* per table the attributes of the remaining rows in input order, the key
\* annotation of every annotated attribute, and the dependencies of the
\* cells, each non-empty clause between ';' parsed into its two lists of
\* names, in input order.
\* ------------------------------------------------------------------------

Structured == pc = "done" /\ "raised" \in DOMAIN ret

TableAt(i) == strip(arg[i].tabla)

AttributeAt(i) == strip(arg[i].atributo)

KeptAt == {i \in DOMAIN arg : TableAt(i) # <<>> /\ AttributeAt(i) # <<>>}

KeptOf(t) == {i \in KeptAt : TableAt(i) = t}

ClausesAt(i) ==
    LET parts == split_char(arg[i].dependencia_funcional, ";")
    IN SelectSeq([k \in DOMAIN parts |-> strip(parts[k])], LAMBDA q : q # <<>>)

Squeezed(text) == SelectSeq(text, LAMBDA c : c # " ")

\* the clause holds '->' with a name on each side of the first one
WellFormed(clause) ==
    /\ contains(clause, <<"-", ">">>)
    /\ LET a == find(clause, <<"-", ">">>)
       IN /\ \E k \in 1..a : clause[k] \notin {" ", ","}
          /\ \E k \in (a + 3)..Len(clause) : clause[k] \notin {" ", ","}

IsName(n) == n # <<>> /\ n[1] # " " /\ n[Len(n)] # " " /\ \A k \in DOMAIN n : n[k] # ","

\* fd is the clause read as (LHS list, RHS list)
ParsedAs(clause, fd) ==
    /\ Len(fd) = 2
    /\ \A side \in 1..2 : fd[side] # <<>> /\ \A k \in DOMAIN fd[side] : IsName(fd[side][k])
    /\ Squeezed(join(<<",">>, fd[1]) \o <<"-", ">">> \o join(<<",">>, fd[2])) = Squeezed(clause)

\* the place in the list of the table of the j-th clause of row i
ClausePlace(t, i, j) ==
    Cardinality({ij \in KeptOf(t) \X (1..Len(CELL_GOOD)) :
                    /\ ij[2] <= Len(ClausesAt(ij[1]))
                    /\ ij[1] < i \/ (ij[1] = i /\ ij[2] <= j)})

ClauseCount(t) ==
    Cardinality({ij \in KeptOf(t) \X (1..Len(CELL_GOOD)) : ij[2] <= Len(ClausesAt(ij[1]))})

Annotated(i) == i \in KeptAt /\ strip(arg[i].llave) # <<>>

C22_StructureByTable ==
    (Structured /\ \A i \in KeptAt : \A j \in DOMAIN ClausesAt(i) : WellFormed(ClausesAt(i)[j])) =>
        /\ ~ret.raised
        /\ DOMAIN ret.attrs = {TableAt(i) : i \in KeptAt}
        /\ \A t \in DOMAIN ret.attrs :
              /\ Len(ret.attrs[t]) = Cardinality(KeptOf(t))
              /\ \A i \in KeptOf(t) :
                    ret.attrs[t][Cardinality({k \in KeptOf(t) : k <= i})] = AttributeAt(i)
        /\ DOMAIN ret.llaves = {TableAt(i) : i \in {k \in KeptAt : Annotated(k)}}
        /\ \A t \in DOMAIN ret.llaves :
              /\ DOMAIN ret.llaves[t] = {AttributeAt(i) : i \in {k \in KeptOf(t) : Annotated(k)}}
              /\ \A i \in KeptOf(t) :
                    (Annotated(i) /\ \A k \in KeptOf(t) :
                        (Annotated(k) /\ AttributeAt(k) = AttributeAt(i)) => k <= i)
                    => ret.llaves[t][AttributeAt(i)] = strip(arg[i].llave)
        /\ DOMAIN ret.fds = {TableAt(i) : i \in {k \in KeptAt : ClausesAt(k) # <<>>}}
        /\ \A t \in DOMAIN ret.fds :
              /\ Len(ret.fds[t]) = ClauseCount(t)
              /\ \A i \in KeptOf(t) : \A j \in DOMAIN ClausesAt(i) :
                    ParsedAs(ClausesAt(i)[j], ret.fds[t][ClausePlace(t, i, j)])

\* a blank row with a malformed cell is skipped, the row after it gives T
\* its attribute A and the two dependencies A -> B and B, A -> A
C22_Witness ==
    /\ Structured
    /\ Len(arg) = 2
    /\ TableAt(1) = <<>> /\ arg[1].dependencia_funcional = CELL_BAD
    /\ TableAt(2) = N_T /\ AttributeAt(2) = N_A /\ arg[2].dependencia_funcional = CELL_GOOD
    /\ ~ret.raised
    /\ ret.attrs = [t \in {N_T} |-> <<N_A>>]
    /\ ret.fds = [t \in {N_T} |-> << << <<N_A>>, <<N_B>> >>, << <<N_B, N_A>>, <<N_A>> >> >>]

\* ------------------------------------------------------------------------
\* C23  depends_on(df, determinant_cols, target) is true exactly when the
\* determinant columns and the target are columns of the data, some row is
\* left once the rows with a null determinant or a null target are put
\* aside, the rows left that agree on the determinant agree on the target,
\* and two of them agree on the determinant (a group of two or more rows);
\* when every group is a single row the answer is false.
\* ------------------------------------------------------------------------

Depended == pc = "done" /\ "determinant_cols" \in DOMAIN arg

Complete(r) ==
    /\ \A k \in DOMAIN arg.determinant_cols : r[arg.determinant_cols[k]] # NULL
    /\ r[arg.target] # NULL

SameDeterminant(r1, r2) ==
    \A k \in DOMAIN arg.determinant_cols : r1[arg.determinant_cols[k]] = r2[arg.determinant_cols[k]]

DependsAsStated ==
    /\ \A k \in DOMAIN arg.determinant_cols : arg.determinant_cols[k] \in Range(arg.df.columns)
    /\ arg.target \in Range(arg.df.columns)
    /\ LET left == {i \in DOMAIN arg.df.rows : Complete(arg.df.rows[i])}
       IN /\ left # {}
          /\ \A i, j \in left :
                SameDeterminant(arg.df.rows[i], arg.df.rows[j])
                   => arg.df.rows[i][arg.target] = arg.df.rows[j][arg.target]
          /\ \E i, j \in left : i # j /\ SameDeterminant(arg.df.rows[i], arg.df.rows[j])

C23_DependsOn == Depended => ret = DependsAsStated

\* a group of two rows with one target value beside a group of one row:
\* true; and two rows that are each a group of their own: false
C23_Witness ==
    /\ Depended
    /\ ret = TRUE
    /\ Len(arg.df.rows) = 3
    /\ arg.determinant_cols = <<N_A>>
    /\ \A i \in 1..3 : Complete(arg.df.rows[i])
    /\ SameDeterminant(arg.df.rows[1], arg.df.rows[2])
    /\ ~SameDeterminant(arg.df.rows[1], arg.df.rows[3])

C23_WitnessSingleRows ==
    /\ Depended
    /\ ret = FALSE
    /\ Len(arg.df.rows) = 2
    /\ \A i \in 1..2 : Complete(arg.df.rows[i])
    /\ ~SameDeterminant(arg.df.rows[1], arg.df.rows[2])

\* ------------------------------------------------------------------------
\* C24  In every plan returned by build_plan the names of the new tables
\* are pairwise distinct, whatever the kinds of the entries, and so are
\* the names of their foreign-key constraints.
\* ------------------------------------------------------------------------

C24_DistinctNames ==
    Planned =>
        \A i, j \in DOMAIN plan.new_tables :
            i # j =>
                /\ plan.new_tables[i].name # plan.new_tables[j].name
                /\ fk_name_of(arg.table, plan.new_tables[i].name)
                      # fk_name_of(arg.table, plan.new_tables[j].name)

\* ------------------------------------------------------------------------
\* C25  In every plan returned by build_plan no from-column of a foreign
\* key of the original table is a drop candidate.
\* ------------------------------------------------------------------------

ForeignKeyColumns ==
    UNION {Range(plan.new_tables[i].fk_from_original[1].from_cols) :
              i \in {k \in DOMAIN plan.new_tables : plan.new_tables[k].fk_from_original # <<>>}}

C25_KeptForeignKeys ==
    Planned => ForeignKeyColumns \cap Range(plan.drop_candidates) = {}

\* ------------------------------------------------------------------------
\* C26  In every plan returned by build_plan for a report of analyze_table
\* no column is among the moved columns of two new tables.
\* ------------------------------------------------------------------------

C26_MovedOnce ==
    Planned =>
        \A i, j \in DOMAIN plan.new_tables :
            i # j => Range(plan.new_tables[i].move_from_original)
                        \cap Range(plan.new_tables[j].move_from_original) = {}

\* ------------------------------------------------------------------------
\* C27  Every new table of a plan returned by build_plan has pairwise
\* distinct column names, and the columns of its primary key are among
\* its columns.
\* ------------------------------------------------------------------------

C27_WellFormedTables ==
    Planned =>
        \A k \in DOMAIN plan.new_tables :
            LET nt == plan.new_tables[k]
            IN /\ \A i, j \in DOMAIN nt.cols : i # j => nt.cols[i][1] # nt.cols[j][1]
               /\ Range(nt.pk) \subseteq ColumnsOf(nt)

\* ------------------------------------------------------------------------
\* C28  In the script of generate_sql for a report of analyze_table every
\* column projected by an executable INSERT ... SELECT DISTINCT from the
\* original table is a column of the catalog of that table (cols_sql).
\* ------------------------------------------------------------------------

\* the columns of nt that the k-th block projects in an executable SELECT
ProjectedColumns(ls, k) ==
    LET block == BlockOf(ls, k)
        nt == plan.new_tables[k]
    IN {c \in ColumnsOf(nt) :
           \E i \in DOMAIN block :
               /\ Executes(block[i], "SELECT DISTINCT")
               /\ contains(block[i], quote_ident(c))}

C28_ProjectsCatalogColumns ==
    Generated =>
        LET ls == lines_of(sql)
        IN \A k \in DOMAIN plan.new_tables :
              ProjectedColumns(ls, k) \subseteq Range(analysis_result.cols_sql)

\* ------------------------------------------------------------------------
\* C29  In the final schema of normalizar_pipeline every foreign key
\* (col, ref_table, ref_col) of a table is well formed: col is an
\* attribute of the table, and ref_col is an attribute of ref_table when
\* ref_table is in the schema.
\* ------------------------------------------------------------------------

WellFormedKey(schema, owner, fk) ==
    /\ In(fk[1], schema[owner].attrs)
    /\ fk[2] \in DOMAIN schema => In(fk[3], schema[fk[2]].attrs)

C29_WellFormedForeignKeys ==
    Piped =>
        \A t \in DOMAIN ret.schema_final :
            \A k \in DOMAIN ret.schema_final[t].fks :
                WellFormedKey(ret.schema_final, t, ret.schema_final[t].fks[k])

\* ------------------------------------------------------------------------
\* C30
\* ------------------------------------------------------------------------

\* the calls of analyze_table, by their place in log.calls
AnalyzeCalls == {i \in DOMAIN log.calls : log.calls[i].fn = "analyze_table"}

\* every call of analyze_table was made with stored structure rows and with
\* a stored connection string for which test_connection had returned; and a
\* request is past its first checks only when structure rows are stored
GuardedAnalysis ==
    /\ \A i \in AnalyzeCalls :
          /\ log.calls[i].rows.rows # <<>>
          /\ log.calls[i].conn_str # NONE
          /\ log.calls[i].conn_str \in log.tested
    /\ session.conn_str # NONE =>
          /\ session.conn_str \in log.tested
          /\ session.conn_saved # <<>>
    /\ pc # "idle" => ~no_rows(raw_estructura)

\* a request that is answered with the redirect to /conectar_sql
RefusedStep ==
    /\ pc = "idle" /\ pc' = "idle"
    /\ log'.requests # log.requests
    /\ ret'.page = "redirect" /\ ret'.to = "conectar_sql"

\* what a step does to the stored connection and to the connections opened
GuardedStep ==
    /\ RefusedStep =>
          /\ session'.conn_str = session.conn_str
          /\ session'.conn_saved = session.conn_saved
    /\ (pc = "idle" /\ no_rows(raw_estructura) /\ session' = session) =>
          /\ pc' = "idle"
          /\ conns' = conns
    /\ conns' # conns /\ Len(conns') > Len(conns) =>
          /\ ~no_rows(raw_estructura)
          /\ session.conn_str \in log.tested

\* C30: in every sequence of requests analyze_table is called only while
\* the session holds uploaded structure rows and a connection string that
\* conectar_sql stored after test_connection returned; a POST /conectar_sql
\* whose test raises or whose form lacks a required field leaves
\* session["conn_str"] and session["conn_saved"] as they were; and a request
\* for an analysis or for scripts made without structure rows opens no
\* connection.
C30_GuardedAnalysis == [](GuardedAnalysis) /\ [][GuardedStep]_vars

\* analyze_table was called, then a POST /conectar_sql was refused
C30_Witness ==
    /\ AnalyzeCalls # {}
    /\ pc = "idle"
    /\ "flash" \in DOMAIN ret
    /\ ret.flash = "error"
    /\ session.conn_str # NONE

\* a request for an analysis without structure rows was answered
C30_WitnessNoRows ==
    /\ pc = "idle"
    /\ ret.page = "redirect" /\ ret.to = "index"
    /\ no_rows(raw_estructura)
    /\ session.conn_str # NONE

====
